---- MODULE Spec2Model ----
(***************************************************************************)
(* Verification model of the Go teaching programs of golang-docs:          *)
(*   - InMemoryServiceRegistry / LoadBalancer / RateLimiter                *)
(*     (8-error-handling.go)                                               *)
(*   - Counter and concurrentTest (3-control-flow.go)                      *)
(*   - createUser of the toy web server (10-web-server.go)                 *)
(*   - CreateOrder / ProcessOrder of DatabaseManager (11-database.go)      *)
(*   - concurrentSquareSum and the worker pool (11-database.go)            *)
(*   - Queue, Cache and ReverseString (3-control-flow.go)                  *)
(*   - retryOperation and the registry under concurrent callers            *)
(*     (8-error-handling.go)                                               *)
(*   - updateUser / deleteUser of the toy web server (10-web-server.go)    *)
(*   - GetOrdersByUser of DatabaseManager (11-database.go)                 *)
(*   - the Redis lock of docs/golang-database.md                           *)
(*   - fanIn of docs/golang-concurrency.md                                 *)
(* Each program is independent; each has its own specification over its    *)
(* own variables, the variables of the other programs staying unchanged.   *)
(***************************************************************************)
EXTENDS Integers, Sequences, FiniteSets, TLC

VARIABLES
    \* InMemoryServiceRegistry + LoadBalancer
    services,      \* r.services: map[string][]string, a function on the present keys
    strategy,      \* lb.strategy
    regLog,        \* history of Register/Deregister calls (observer)
    regRes,        \* result of the last Discover/HealthCheck/GetServiceAddress call
    lbCalls,       \* number of GetServiceAddress calls made so far
    \* RateLimiter
    requests,      \* rl.requests: map[string][]time.Time
    limit,         \* rl.limit
    window,        \* rl.window
    clock,         \* the monotonic clock read by time.Now()
    allowedAt,     \* per key, the times of the calls that returned true (observer)
    rlRes,         \* key, time and result of the last Allow call
    \* Counter + concurrentTest
    cValue,        \* counter.value
    cMu,           \* counter.mu: 0 when unlocked, else the goroutine holding it
    wg,            \* the WaitGroup counter
    gPc,           \* per goroutine, its position
    gJ,            \* per goroutine, its loop variable j
    gReg,          \* per goroutine, the value loaded by c.value++
    mainPc,        \* position of concurrentTest
    mainI,         \* loop variable i of concurrentTest
    actual,        \* actual := counter.Value()
    \* web server: users, nextUserID and the createUser handlers
    users,         \* users: map[int]User, user id -> who created it
    nextUserID,    \* nextUserID
    mapWriting,    \* the runtime's "a goroutine is writing this map" flag of users
    crashed,       \* the runtime stopped the process: concurrent map writes
    hPc,           \* per request, the position of its handler goroutine
    hUserID,       \* per request, user.ID of the handler's local user
    hReg,          \* per request, the value loaded by nextUserID++
    hStatus,       \* per request, the response status (0: none yet)
    \* DatabaseManager over SQLite
    products,      \* committed products table: id -> price
    orders,        \* committed orders table, in rowid order
    orderItems,    \* committed order_items table, in rowid order
    dbReserved,    \* the caller whose transaction holds the write lock, or 0
    dbShared,      \* the callers whose transactions hold a read lock
    call,          \* per caller, the running CreateOrder/ProcessOrder call
    rdPc,          \* position of the GetOrder reader
    rdOrder,       \* the orders row the reader has fetched
    rdSeen,        \* the last GetOrder result
    \* concurrentSquareSum
    numbers,       \* the argument
    sqPc,          \* position of the calling goroutine
    sqI,           \* index of the spawning loop
    sqWg,          \* the WaitGroup counter
    sqClosed,      \* ch is closed
    sqPanic,       \* a goroutine panicked (send on closed channel)
    sqSender,      \* per element, the position of its goroutine
    sqCloser,      \* position of the closing goroutine
    sqSum,         \* sum
    sqGot,         \* the senders whose value was received, in order (observer)
    \* worker pool
    jobs,          \* buffer of the jobs channel
    jobsClosed,    \* jobs is closed
    results,       \* buffer of the results channel
    wPc,           \* per worker, its position
    wJob,          \* per worker, its loop variable j
    pmPc,          \* position of main
    pmJ,           \* main's loop variable j
    pmR,           \* main's loop variable r
    pmGot,         \* the set of results main has received (observer)
    taken,         \* per job, how many times a worker took it (observer)
    tookAny,       \* the workers that have taken a job (observer)
    \* Queue + queueTest
    qItems,        \* q.items
    qLog,          \* the items enqueued so far, in order (observer)
    qOut,          \* the items successfully dequeued so far, in order (observer)
    qRes,          \* the last call and what it returned
    qOps,          \* number of calls the free caller has made
    qtPc,          \* position of queueTest, or "ops" for a free caller
    qtN,           \* the number of items queueTest enqueues
    qtI,           \* loop variable i of queueTest
    dequeued,      \* dequeued of queueTest
    \* retryOperation
    rtMax,         \* maxRetries
    rtI,           \* loop variable i
    rtPc,          \* position of retryOperation
    rtHist,        \* what each invocation of operation returned, in order (observer)
    rtSleeps,      \* number of time.Sleep calls made (observer)
    rtRet,         \* the returned pair
    \* updateUser and deleteUser handlers
    eMethod,       \* per request, r.Method
    ePath,         \* per request, r.URL.Path after "/users/"
    eBody,         \* per request, whether r.Body is decodable JSON
    ePc,           \* per request, the position of its handler goroutine
    eID,           \* per request, the handler's id
    eStatus,       \* per request, the response status (0: none yet)
    eFound,        \* per request, the handler's exists
    \* Redis lock: acquireLock and releaseLock
    lkStore,       \* per lockKey, what Redis holds: value, whether it expires, who set it (observer)
    lkHeld,        \* per client and lockKey, the lockValue acquireLock returned to it (0: none)
    lkExpired,     \* per lockKey, a key of it has expired (observer)
    lkRes,         \* the last call and its outcome
    lkExpiration,  \* the expiration the clients pass to acquireLock (0: none)
    \* GetOrdersByUser
    gobOrders,     \* the orders table in the snapshot the query reads
    gobItems,      \* the order_items table in that snapshot
    gobUser,       \* userID
    gobPc,         \* position of GetOrdersByUser
    gobRows,       \* the rows of the query not yet returned by rows.Next()
    gobMap,        \* orders: map[int]*Order
    gobResult,     \* result
    \* Cache
    caData,        \* c.data
    caWriter,      \* c.mu: the goroutine holding the write lock, or 0
    caReaders,     \* c.mu: the goroutines holding the read lock
    caPc,          \* per caller, its position
    caOp,          \* per caller, the call it is making
    caRes,         \* per caller, what its last Get returned
    caLog,         \* the Set and Delete calls in the order they changed c.data (observer)
    caOps,         \* number of calls made so far
    \* ReverseString as stringTest uses it
    rvS,           \* str, as its bytes
    rvPc,          \* position of the loop body of stringTest
    rvOnce,        \* reversed
    rvTwice,       \* doubleReversed
    \* InMemoryServiceRegistry called concurrently
    rcWriter,      \* r.mu: the goroutine holding the write lock, or 0
    rcReaders,     \* r.mu: the goroutines holding the read lock
    rcPc,          \* per caller, its position
    rcOp,          \* per caller, the call it is making
    rcSlice,       \* per caller, the slice Register read from the map
    rcFrom,        \* per caller, the number of writes done when it called (observer)
    rcRes,         \* per caller, what its call returns
    rcCalls,       \* number of calls made so far
    \* fanIn, its producers and main
    fiI,           \* per input, the producer's loop variable i
    fiClosed,      \* per input, the channel is closed
    fiFPc,         \* per input, the position of the goroutine forwarding it
    fiVal,         \* per input, val of the forwarding goroutine
    fiWg,          \* the WaitGroup counter
    fiMerged,      \* mergedCh is "open" or "closed"
    fiCloses,      \* number of close(mergedCh) executed
    fiMainPc,      \* position of main
    fiGot,         \* what main received, with the input it came from (observer)
    fiPanic,       \* a goroutine panicked: send on closed channel
    \* main of 11-database.go from ProcessOrder on
    mnProducts,    \* ids of the products present in the products table
    mnOrders,      \* number of rows of the orders table (ids 1..mnOrders)
    mnPc,          \* position of main
    mnOrder,       \* order of main: nil or a pointer to an Order
    mnErr,         \* err of main after ProcessOrder
    mnLog,         \* what main logged and printed
    mnPanic,       \* the runtime panicked: nil pointer dereference
    mnClosed       \* dm.Close() has run

regVars == <<services, strategy, regLog, regRes, lbCalls>>
rlVars == <<requests, limit, window, clock, allowedAt, rlRes>>

ctVars == <<cValue, cMu, wg, gPc, gJ, gReg, mainPc, mainI, actual>>

webVars == <<users, nextUserID, mapWriting, crashed, hPc, hUserID, hReg, hStatus>>

rdVars == <<rdPc, rdOrder, rdSeen>>
dbVars == <<products, orders, orderItems, dbReserved, dbShared, call, rdVars>>

sqVars == <<numbers, sqPc, sqI, sqWg, sqClosed, sqPanic, sqSender, sqCloser, sqSum, sqGot>>
wpVars == <<jobs, jobsClosed, results, wPc, wJob, pmPc, pmJ, pmR, pmGot, taken, tookAny>>

qVars == <<qItems, qLog, qOut, qRes, qOps, qtPc, qtN, qtI, dequeued>>
rtVars == <<rtMax, rtI, rtPc, rtHist, rtSleeps, rtRet>>
edVars == <<eMethod, ePath, eBody, ePc, eID, eStatus, eFound>>
lkVars == <<lkStore, lkHeld, lkExpired, lkRes, lkExpiration>>
gobVars == <<gobOrders, gobItems, gobUser, gobPc, gobRows, gobMap, gobResult>>
caVars == <<caData, caWriter, caReaders, caPc, caOp, caRes, caLog, caOps>>
rvVars == <<rvS, rvPc, rvOnce, rvTwice>>
rcVars == <<rcWriter, rcReaders, rcPc, rcOp, rcSlice, rcFrom, rcRes, rcCalls>>
fiVars == <<fiI, fiClosed, fiFPc, fiVal, fiWg, fiMerged, fiCloses, fiMainPc, fiGot, fiPanic>>
mnVars == <<mnProducts, mnOrders, mnPc, mnOrder, mnErr, mnLog, mnPanic, mnClosed>>

(* the programs are listed in two groups *)
group1 == <<regVars, rlVars, ctVars, webVars, dbVars, sqVars, wpVars>>
group2 == <<qVars, rtVars, edVars, lkVars, gobVars, caVars, rvVars, rcVars, fiVars, mnVars>>

vars == <<group1, group2>>

(* the variables of the other programs, which a program's steps leave alone *)
notReg == <<rlVars, ctVars, webVars, dbVars, sqVars, wpVars, group2>>
notRl == <<regVars, ctVars, webVars, dbVars, sqVars, wpVars, group2>>
notCt == <<regVars, rlVars, webVars, dbVars, sqVars, wpVars, group2>>
notWeb == <<regVars, rlVars, ctVars, dbVars, sqVars, wpVars, group2>>
notDb == <<regVars, rlVars, ctVars, webVars, sqVars, wpVars, group2>>
notSq == <<regVars, rlVars, ctVars, webVars, dbVars, wpVars, group2>>
notWp == <<regVars, rlVars, ctVars, webVars, dbVars, sqVars, group2>>
notQ == <<group1, rtVars, edVars, lkVars, gobVars, caVars, rvVars, rcVars, fiVars, mnVars>>
notRt == <<group1, qVars, edVars, lkVars, gobVars, caVars, rvVars, rcVars, fiVars, mnVars>>
webPostVars == <<hPc, hUserID, hReg, hStatus>>
notEd == <<regVars, rlVars, ctVars, webPostVars, dbVars, sqVars, wpVars, qVars, rtVars,
           lkVars, gobVars, caVars, rvVars, rcVars, fiVars, mnVars>>
notLk == <<group1, qVars, rtVars, edVars, gobVars, caVars, rvVars, rcVars, fiVars, mnVars>>
notGob == <<group1, qVars, rtVars, edVars, lkVars, caVars, rvVars, rcVars, fiVars, mnVars>>
notCa == <<group1, qVars, rtVars, edVars, lkVars, gobVars, rvVars, rcVars, fiVars, mnVars>>
notRv == <<group1, qVars, rtVars, edVars, lkVars, gobVars, caVars, rcVars, fiVars, mnVars>>
notRc == <<strategy, regRes, lbCalls, rlVars, ctVars, webVars, dbVars, sqVars, wpVars,
           qVars, rtVars, edVars, lkVars, gobVars, caVars, rvVars, fiVars, mnVars>>
notFi == <<group1, qVars, rtVars, edVars, lkVars, gobVars, caVars, rvVars, rcVars, mnVars>>
notMn == <<group1, qVars, rtVars, edVars, lkVars, gobVars, caVars, rvVars, rcVars, fiVars>>

----------------------------------------------------------------------------
(* Small helpers *)

Range(s) == {s[i] : i \in 1..Len(s)}

RECURSIVE SumSeq(_)
SumSeq(s) == IF s = <<>> THEN 0 ELSE Head(s) + SumSeq(Tail(s))

----------------------------------------------------------------------------
(* InMemoryServiceRegistry and LoadBalancer, 8-error-handling.go *)

Names == {"user-service", "order-service"}
Addrs == {"localhost:8080", "localhost:8081"}
Strategies == {"round-robin", "random", "least-connections"}

MaxRegOps == 4
MaxLbCalls == 3

NoErr == <<>>
ErrNotFound(name) == <<"service not found", name>>
ErrNoInstances == <<"no instance available">>

\* r.services[serviceName] = append(r.services[serviceName], address)
RegisterReplace(m, name, addr) ==
    [n \in DOMAIN m \cup {name} |-> IF n = name THEN <<addr>> ELSE m[n]]
RegisterMap(m, name, addr) ==
    [n \in DOMAIN m \cup {name} |->
        IF n = name
        THEN Append(IF name \in DOMAIN m THEN m[name] ELSE <<>>, addr)
        ELSE m[n]]

\* delete(r.services, serviceName)
DeregisterEmpty(m, name) ==
    [n \in DOMAIN m |-> IF n = name THEN <<>> ELSE m[n]]
DeregisterMap(m, name) ==
    [n \in DOMAIN m \ {name} |-> m[n]]

\* addresses, exists := r.services[serviceName]; !exists -> (nil, error)
Discover(m, name) ==
    IF name \notin DOMAIN m
    THEN [addrs |-> <<>>, err |-> ErrNotFound(name)]
    ELSE [addrs |-> m[name], err |-> NoErr]

\* _, exists := r.services[serviceName]; return exists
HealthCheck(m, name) == name \in DOMAIN m

\* Discover, then addresses[0]; the strategy field is never read
GetServiceAddressLast(m, strat, name) ==
    LET d == Discover(m, name) IN
    IF d.err # NoErr THEN [addr |-> "", err |-> d.err]
    ELSE IF Len(d.addrs) = 0 THEN [addr |-> "", err |-> ErrNoInstances]
    ELSE [addr |-> d.addrs[Len(d.addrs)], err |-> NoErr]
GetServiceAddress(m, strat, name) ==
    LET d == Discover(m, name) IN
    IF d.err # NoErr THEN [addr |-> "", err |-> d.err]
    ELSE IF Len(d.addrs) = 0 THEN [addr |-> "", err |-> ErrNoInstances]
    ELSE [addr |-> d.addrs[1], err |-> NoErr]

NoRes == [op |-> "none"]

RegInit ==
    /\ services = <<>>
    /\ strategy \in Strategies
    /\ regLog = <<>>
    /\ regRes = NoRes
    /\ lbCalls = 0

Register(name, addr) ==
    /\ Len(regLog) < MaxRegOps
    /\ services' = RegisterMap(services, name, addr)
    /\ regLog' = Append(regLog, [op |-> "Register", name |-> name, addr |-> addr])
    /\ regRes' = [op |-> "Register", name |-> name, err |-> NoErr]
    /\ UNCHANGED <<strategy, lbCalls>>
    /\ UNCHANGED notReg

Deregister(name) ==
    /\ Len(regLog) < MaxRegOps
    /\ services' = DeregisterMap(services, name)
    /\ regLog' = Append(regLog, [op |-> "Deregister", name |-> name])
    /\ regRes' = [op |-> "Deregister", name |-> name, err |-> NoErr]
    /\ UNCHANGED <<strategy, lbCalls>>
    /\ UNCHANGED notReg

DiscoverCall(name) ==
    /\ regRes' = [op |-> "Discover", name |-> name,
                  addrs |-> Discover(services, name).addrs,
                  err |-> Discover(services, name).err]
    /\ UNCHANGED <<services, strategy, regLog, lbCalls>>
    /\ UNCHANGED notReg

HealthCheckCall(name) ==
    /\ regRes' = [op |-> "HealthCheck", name |-> name,
                  ok |-> HealthCheck(services, name)]
    /\ UNCHANGED <<services, strategy, regLog, lbCalls>>
    /\ UNCHANGED notReg

GetServiceAddressCall(name) ==
    /\ lbCalls < MaxLbCalls
    /\ lbCalls' = lbCalls + 1
    /\ regRes' = [op |-> "GetServiceAddress", name |-> name,
                  addr |-> GetServiceAddress(services, strategy, name).addr,
                  err |-> GetServiceAddress(services, strategy, name).err]
    /\ UNCHANGED <<services, strategy, regLog>>
    /\ UNCHANGED notReg

RegNext ==
    \/ \E n \in Names, a \in Addrs : Register(n, a)
    \/ \E n \in Names : Deregister(n)
    \/ \E n \in Names : DiscoverCall(n)
    \/ \E n \in Names : HealthCheckCall(n)
    \/ \E n \in Names : GetServiceAddressCall(n)

----------------------------------------------------------------------------
(* What the history says the registry holds *)

\* index of the most recent Deregister(name) in the history, 0 when none
LastDeregister(log, name) ==
    LET ds == {i \in 1..Len(log) : log[i].op = "Deregister" /\ log[i].name = name}
    IN IF ds = {} THEN 0 ELSE CHOOSE i \in ds : \A j \in ds : j <= i

RECURSIVE AddrsFrom(_, _, _)
AddrsFrom(log, name, i) ==
    IF i > Len(log) THEN <<>>
    ELSE IF log[i].op = "Register" /\ log[i].name = name
         THEN <<log[i].addr>> \o AddrsFrom(log, name, i + 1)
         ELSE AddrsFrom(log, name, i + 1)

\* the addresses passed to Register(name, .) since the most recent
\* Deregister(name), in call order, duplicates kept
RegisteredSince(log, name) == AddrsFrom(log, name, LastDeregister(log, name) + 1)

\* C1: after any sequence of Register and Deregister calls, Discover(name)
\* returns exactly the addresses passed to Register(name, .) since the most
\* recent Deregister(name) (or since creation), in registration order and
\* with duplicates kept.
C1_DiscoverIsHistory ==
    /\ \A n \in Names : Discover(services, n).addrs = RegisteredSince(regLog, n)
    /\ regRes.op = "Discover" => regRes.addrs = RegisteredSince(regLog, regRes.name)

\* a name deregistered and registered again, holding a duplicate address
C1_Witness ==
    /\ regRes.op = "Discover"
    /\ Len(regRes.addrs) = 2
    /\ regRes.addrs[1] = regRes.addrs[2]
    /\ LastDeregister(regLog, regRes.name) > 1

NoEntry(log, name) ==
    \A i \in 1..Len(log) :
        (log[i].op = "Register" /\ log[i].name = name)
            => \E j \in (i + 1)..Len(log) :
                  log[j].op = "Deregister" /\ log[j].name = name

\* C3: Discover(name) returns an error and no addresses exactly when name has
\* no entry; HealthCheck(name) is true exactly when Discover(name) succeeds;
\* GetServiceAddress(name) returns that same Discover error with an empty
\* address.
C3_NotFoundExactlyWhenAbsent ==
    /\ regRes.op = "Discover" =>
          /\ (regRes.err # NoErr) <=> NoEntry(regLog, regRes.name)
          /\ regRes.err # NoErr => regRes.addrs = <<>>
    /\ regRes.op = "HealthCheck" =>
          (regRes.ok <=> ~NoEntry(regLog, regRes.name))
    /\ \A n \in Names :
          HealthCheck(services, n) <=> (Discover(services, n).err = NoErr)
    /\ (regRes.op = "GetServiceAddress" /\ NoEntry(regLog, regRes.name)) =>
          /\ regRes.addr = ""
          /\ regRes.err = Discover(services, regRes.name).err
          /\ regRes.err # NoErr

\* the load balancer is asked for a service that was registered and then
\* deregistered
C3_Witness ==
    /\ regRes.op = "GetServiceAddress"
    /\ regRes.err = ErrNotFound(regRes.name)
    /\ \E i \in 1..Len(regLog) :
          regLog[i].op = "Register" /\ regLog[i].name = regRes.name

----------------------------------------------------------------------------
(* RateLimiter, 8-error-handling.go *)

Keys == {"user123", "user456"}

MaxLimit == 2
MaxWindow == 2
MaxTime == 2

\* now.Sub(reqTime) <= rl.window
StillValidStrict(now, reqTime, w) == now - reqTime < w
StillValid(now, reqTime, w) == now - reqTime <= w

\* the cleaning loop of Allow: keeps the records that are still in the window
ValidRequests(reqs, now, w) ==
    SelectSeq(reqs, LAMBDA reqTime : StillValid(now, reqTime, w))

\* no cleaning at all
CleanedNothing(m, key, now, w) == m

\* rl.requests after the cleaning block; a missing key is left missing
Cleaned(m, key, now, w) ==
    IF key \in DOMAIN m
    THEN [m EXCEPT ![key] = ValidRequests(m[key], now, w)]
    ELSE m

\* len(rl.requests[key]): a missing key reads as the nil slice
LenOf(m, key) == IF key \in DOMAIN m THEN Len(m[key]) ELSE 0

\* rl.requests[key] = append(rl.requests[key], now)
Recorded(m, key, now) ==
    [k \in DOMAIN m \cup {key} |->
        IF k = key
        THEN Append(IF key \in DOMAIN m THEN m[key] ELSE <<>>, now)
        ELSE m[k]]

RlInit ==
    /\ requests = <<>>
    /\ limit \in 0..MaxLimit
    /\ window \in 0..MaxWindow
    /\ clock = 0
    /\ allowedAt = [k \in Keys |-> <<>>]
    /\ rlRes = NoRes

\* time passes between two calls
Tick ==
    /\ clock < MaxTime
    /\ clock' = clock + 1
    /\ UNCHANGED <<requests, limit, window, allowedAt, rlRes>>
    /\ UNCHANGED notRl

Allow(key) ==
    /\ LET now == clock
           cleaned == Cleaned(requests, key, now, window)
       IN  IF LenOf(cleaned, key) >= limit
           THEN /\ requests' = cleaned
                /\ rlRes' = [op |-> "Allow", key |-> key, at |-> now, ok |-> FALSE]
                /\ UNCHANGED <<limit, window, clock, allowedAt>>
           ELSE /\ requests' = Recorded(cleaned, key, now)
                /\ allowedAt' = [allowedAt EXCEPT ![key] = Append(@, now)]
                /\ rlRes' = [op |-> "Allow", key |-> key, at |-> now, ok |-> TRUE]
                /\ UNCHANGED <<limit, window, clock>>
    /\ UNCHANGED notRl

RlNext ==
    \/ Tick
    \/ \E k \in Keys : Allow(k)

\* number of calls for key that returned true at a time in [t - window, t]
AllowedIn(key, t) ==
    Cardinality({i \in 1..Len(allowedAt[key]) :
                    /\ t - window <= allowedAt[key][i]
                    /\ allowedAt[key][i] <= t})

\* C4: RateLimiter is a sliding-window limiter: for every key and every
\* instant t, the number of Allow(key) calls that returned true at times in
\* [t - window, t] never exceeds limit.
C4_SlidingWindow ==
    \A k \in Keys : \A t \in 0..(MaxTime + MaxWindow) : AllowedIn(k, t) <= limit

\* a key that has used up its limit is admitted again, the window having slid
\* past its oldest request, and the window ending at that call is full
C4_Witness ==
    /\ limit >= 1
    /\ window >= 1
    /\ rlRes.op = "Allow"
    /\ rlRes.ok
    /\ Len(allowedAt[rlRes.key]) > limit
    /\ AllowedIn(rlRes.key, rlRes.at) = limit

\* the times recorded under key, as a bag: time -> number of records
RecordsOf(m, key) ==
    [t \in 0..MaxTime |->
        IF key \in DOMAIN m
        THEN Cardinality({i \in 1..Len(m[key]) : m[key][i] = t})
        ELSE 0]

\* C18: Allow(key) returns true if and only if, when it is called, fewer
\* than limit of the calls for key that returned true before have age <=
\* window, a call exactly window old counting; a call that returns false
\* records nothing, for any key, and a call that returns true records its
\* own time once under its key and nothing else.
C18_AllowIff ==
    [][\A k \in Keys :
         Allow(k) =>
            /\ rlRes'.ok <=> AllowedIn(k, clock) < limit
            /\ ~rlRes'.ok =>
                  /\ allowedAt' = allowedAt
                  /\ \A k2 \in Keys, t \in 0..MaxTime :
                        RecordsOf(requests', k2)[t] <= RecordsOf(requests, k2)[t]
            /\ rlRes'.ok =>
                  /\ \A t \in 0..MaxTime :
                        RecordsOf(requests', k)[t] <=
                            RecordsOf(requests, k)[t] + (IF t = clock THEN 1 ELSE 0)
                  /\ RecordsOf(requests', k)[clock] = RecordsOf(requests, k)[clock] + 1
                  /\ \A k2 \in Keys \ {k} :
                        RecordsOf(requests', k2) = RecordsOf(requests, k2)]_vars

\* a call is refused while a call exactly window old still fills the limit,
\* an earlier refusal having changed nothing
C18_Witness ==
    /\ limit >= 1
    /\ window >= 1
    /\ rlRes.op = "Allow"
    /\ ~rlRes.ok
    /\ rlRes.at = MaxTime
    /\ AllowedIn(rlRes.key, rlRes.at) = limit
    /\ \E i \in 1..Len(allowedAt[rlRes.key]) :
          allowedAt[rlRes.key][i] = rlRes.at - window

----------------------------------------------------------------------------
(* Counter and concurrentTest, 3-control-flow.go *)

\* numGoroutines and incrementsPerGoroutine, scaled down
NumGoroutines == 2
IncrementsPer == 2

Goroutines == 1..NumGoroutines

\* sync.Mutex.Lock returns only when the mutex is unlocked
CanLockAlways(mu) == TRUE
CanLock(mu) == mu = 0

\* sync.WaitGroup.Wait returns only when the counter is zero
WaitReturns(n) == n = 0

CtInit ==
    /\ cValue = 0
    /\ cMu = 0
    /\ wg = 0
    /\ gPc = [g \in Goroutines |-> "unborn"]
    /\ gJ = [g \in Goroutines |-> 0]
    /\ gReg = [g \in Goroutines |-> 0]
    /\ mainPc = "spawn"
    /\ mainI = 0
    /\ actual = -1

\* for i := 0; i < numGoroutines; i++ { wg.Add(1); go func() {...}() }
CtSpawn ==
    /\ mainPc = "spawn"
    /\ IF mainI < NumGoroutines
       THEN /\ wg' = wg + 1
            /\ gPc' = [gPc EXCEPT ![mainI + 1] = "loop"]
            /\ mainI' = mainI + 1
            /\ UNCHANGED mainPc
       ELSE /\ mainPc' = "wait"
            /\ UNCHANGED <<wg, gPc, mainI>>
    /\ UNCHANGED <<cValue, cMu, gJ, gReg, actual>>
    /\ UNCHANGED notCt

\* wg.Wait()
CtWait ==
    /\ mainPc = "wait"
    /\ WaitReturns(wg)
    /\ mainPc' = "value"
    /\ UNCHANGED <<cValue, cMu, wg, gPc, gJ, gReg, mainI, actual>>
    /\ UNCHANGED notCt

\* actual := counter.Value(): Lock, read, Unlock
CtValue ==
    /\ mainPc = "value"
    /\ CanLock(cMu)
    /\ actual' = cValue
    /\ mainPc' = "done"
    /\ UNCHANGED <<cValue, cMu, wg, gPc, gJ, gReg, mainI>>
    /\ UNCHANGED notCt

\* for j := 0; j < incrementsPerGoroutine; j++, then the deferred wg.Done()
GLoop(g) ==
    /\ gPc[g] = "loop"
    /\ IF gJ[g] < IncrementsPer
       THEN /\ gPc' = [gPc EXCEPT ![g] = "lock"]
            /\ UNCHANGED wg
       ELSE /\ gPc' = [gPc EXCEPT ![g] = "done"]
            /\ wg' = wg - 1
    /\ UNCHANGED <<cValue, cMu, gJ, gReg, mainPc, mainI, actual>>
    /\ UNCHANGED notCt

\* Increment: c.mu.Lock()
GLock(g) ==
    /\ gPc[g] = "lock"
    /\ CanLock(cMu)
    /\ cMu' = g
    /\ gPc' = [gPc EXCEPT ![g] = "load"]
    /\ UNCHANGED <<cValue, wg, gJ, gReg, mainPc, mainI, actual>>
    /\ UNCHANGED notCt

\* Increment: c.value++ loads the value ...
GLoad(g) ==
    /\ gPc[g] = "load"
    /\ gReg' = [gReg EXCEPT ![g] = cValue]
    /\ gPc' = [gPc EXCEPT ![g] = "store"]
    /\ UNCHANGED <<cValue, cMu, wg, gJ, mainPc, mainI, actual>>
    /\ UNCHANGED notCt

\* ... and stores the value plus one
GStore(g) ==
    /\ gPc[g] = "store"
    /\ cValue' = gReg[g] + 1
    /\ gPc' = [gPc EXCEPT ![g] = "unlock"]
    /\ UNCHANGED <<cMu, wg, gJ, gReg, mainPc, mainI, actual>>
    /\ UNCHANGED notCt

\* Increment: the deferred c.mu.Unlock(), then j++
GUnlock(g) ==
    /\ gPc[g] = "unlock"
    /\ cMu' = 0
    /\ gJ' = [gJ EXCEPT ![g] = @ + 1]
    /\ gPc' = [gPc EXCEPT ![g] = "loop"]
    /\ UNCHANGED <<cValue, wg, gReg, mainPc, mainI, actual>>
    /\ UNCHANGED notCt

CtNext ==
    \/ CtSpawn
    \/ CtWait
    \/ CtValue
    \/ \E g \in Goroutines : GLoop(g)
    \/ \E g \in Goroutines : GLock(g)
    \/ \E g \in Goroutines : GLoad(g)
    \/ \E g \in Goroutines : GStore(g)
    \/ \E g \in Goroutines : GUnlock(g)

\* C5: if N goroutines each call Counter.Increment M times concurrently, then
\* once WaitGroup.Wait has returned Counter.Value() equals N x M under every
\* interleaving: no increment is lost or counted twice.
C5_NoLostIncrement ==
    /\ mainPc = "value" => cValue = NumGoroutines * IncrementsPer
    /\ mainPc = "done" => actual = NumGoroutines * IncrementsPer

\* concurrentTest has read the counter after all goroutines finished
C5_Witness ==
    /\ mainPc = "done"
    /\ actual = NumGoroutines * IncrementsPer
    /\ \A g \in Goroutines : gPc[g] = "done" /\ gJ[g] = IncrementsPer

----------------------------------------------------------------------------
(* users, nextUserID, initData and createUser, 10-web-server.go.            *)
(* net/http serves every request on its own goroutine and the handlers      *)
(* take no lock, so the statements of concurrent handlers interleave.       *)

\* number of POST /users requests sent to the server
MaxRequests == 3

Requests == 1..MaxRequests

\* the two users stored by initData; a created user is named by its request
Seed == 0
SeededIDs == {1, 2}

StatusCreated == 201
StatusBadRequest == 400

\* users[id] = user
MapAssign(m, id, u) == [k \in DOMAIN m \cup {id} |-> IF k = id THEN u ELSE m[k]]

WebInit ==
    /\ users = [id \in SeededIDs |-> Seed]
    /\ nextUserID = 3
    /\ mapWriting = FALSE
    /\ crashed = FALSE
    /\ hPc = [r \in Requests |-> "decode"]
    /\ hUserID = [r \in Requests |-> 0]
    /\ hReg = [r \in Requests |-> 0]
    /\ hStatus = [r \in Requests |-> 0]

\* json.NewDecoder(r.Body).Decode(&user): the body is valid JSON or not
CuDecode(r) ==
    /\ ~crashed
    /\ hPc[r] = "decode"
    /\ \E valid \in BOOLEAN :
          IF valid
          THEN /\ hPc' = [hPc EXCEPT ![r] = "assignID"]
               /\ UNCHANGED hStatus
          ELSE /\ hPc' = [hPc EXCEPT ![r] = "done"]
               /\ hStatus' = [hStatus EXCEPT ![r] = StatusBadRequest]
    /\ UNCHANGED <<users, nextUserID, mapWriting, crashed, hUserID, hReg>>
    /\ UNCHANGED notWeb

\* user.ID = nextUserID
CuAssignID(r) ==
    /\ ~crashed
    /\ hPc[r] = "assignID"
    /\ hUserID' = [hUserID EXCEPT ![r] = nextUserID]
    /\ hPc' = [hPc EXCEPT ![r] = "incLoad"]
    /\ UNCHANGED <<users, nextUserID, mapWriting, crashed, hReg, hStatus>>
    /\ UNCHANGED notWeb

\* nextUserID++ loads the variable ...
CuIncLoad(r) ==
    /\ ~crashed
    /\ hPc[r] = "incLoad"
    /\ hReg' = [hReg EXCEPT ![r] = nextUserID]
    /\ hPc' = [hPc EXCEPT ![r] = "incStore"]
    /\ UNCHANGED <<users, nextUserID, mapWriting, crashed, hUserID, hStatus>>
    /\ UNCHANGED notWeb

\* ... and stores the loaded value plus one
CuIncStore(r) ==
    /\ ~crashed
    /\ hPc[r] = "incStore"
    /\ nextUserID' = hReg[r] + 1
    /\ hPc' = [hPc EXCEPT ![r] = "mapBegin"]
    /\ UNCHANGED <<users, mapWriting, crashed, hUserID, hReg, hStatus>>
    /\ UNCHANGED notWeb

\* users[user.ID] = user begins: the runtime stops the process when another
\* goroutine is inside a write of the same map
CuMapBegin(r) ==
    /\ ~crashed
    /\ hPc[r] = "mapBegin"
    /\ IF mapWriting
       THEN /\ crashed' = TRUE
            /\ UNCHANGED <<mapWriting, hPc>>
       ELSE /\ mapWriting' = TRUE
            /\ hPc' = [hPc EXCEPT ![r] = "mapEnd"]
            /\ UNCHANGED crashed
    /\ UNCHANGED <<users, nextUserID, hUserID, hReg, hStatus>>
    /\ UNCHANGED notWeb

\* users[user.ID] = user completes; 201 and the user are written back
CuMapEnd(r) ==
    /\ ~crashed
    /\ hPc[r] = "mapEnd"
    /\ users' = MapAssign(users, hUserID[r], r)
    /\ mapWriting' = FALSE
    /\ hStatus' = [hStatus EXCEPT ![r] = StatusCreated]
    /\ hPc' = [hPc EXCEPT ![r] = "done"]
    /\ UNCHANGED <<nextUserID, crashed, hUserID, hReg>>
    /\ UNCHANGED notWeb

WebNext ==
    \/ \E r \in Requests : CuDecode(r)
    \/ \E r \in Requests : CuAssignID(r)
    \/ \E r \in Requests : CuIncLoad(r)
    \/ \E r \in Requests : CuIncStore(r)
    \/ \E r \in Requests : CuMapBegin(r)
    \/ \E r \in Requests : CuMapEnd(r)

\* the requests answered 201 Created
Created == {r \in Requests : hStatus[r] = StatusCreated}

\* C6: every successful POST /users stores the new user under an ID that no
\* seeded or previously created user has ever had, also when several POST
\* requests are handled concurrently; no created user is overwritten by
\* another creation.
C6_CreatedIDsUnique ==
    /\ \A r \in Created : hUserID[r] \notin SeededIDs
    /\ \A r1, r2 \in Created : r1 # r2 => hUserID[r1] # hUserID[r2]
    /\ \A r \in Created : users[hUserID[r]] = r

----------------------------------------------------------------------------
(* DatabaseManager.CreateOrder, ProcessOrder, GetOrder and UpdateProduct,   *)
(* 11-database.go, over database/sql and SQLite.                            *)
(* A transaction's inserts stay private to it until Commit, which applies   *)
(* them at once; Rollback, and a failed Commit, drop them.  SQLite lets one *)
(* transaction write at a time (the reserved lock), makes a commit wait for *)
(* the transactions that have read (the shared lock), and answers           *)
(* "database is locked" to the one that cannot proceed.  Any statement may  *)
(* also fail for a reason of its own, which the code handles the same way.  *)

\* number of callers, each running one CreateOrder or ProcessOrder
MaxCallers == 2

Callers == 1..MaxCallers

\* the order ids a reader asks for
OrderIDs == 1..MaxCallers

\* products 1 and 2 exist, product 3 does not
ProductIDs == {1, 2}
Prices == {10, 20}

Item(pid, qty) == [product_id |-> pid, quantity |-> qty, price |-> 0]

\* the item lists passed to CreateOrder
CoItemLists ==
    { <<>>,
      <<Item(1, 2)>>,
      <<Item(1, 2), Item(2, 1)>> }

\* the item lists passed to ProcessOrder
PoItemLists ==
    { <<>>,
      <<Item(1, 2), Item(2, 1)>>,
      <<Item(1, 1), Item(3, 1)>> }

NoRow == [id |-> 0]

IdleCall == [op |-> "none", pc |-> "idle", userID |-> 0, items |-> <<>>,
             idx |-> 0, total |-> 0, status |-> "", orderID |-> 0,
             txOrder |-> NoRow, txItems |-> <<>>, err |-> ""]

\* tx.Exec(INSERT ...): the row is written inside the transaction
ExecInsertDirect(table, tx, row) == [table |-> Append(table, row), tx |-> tx]
ExecInsert(table, tx, row) == [table |-> table, tx |-> Append(tx, row)]

\* total += price * float64(items[i].Quantity)
LineTotalNoQuantity(price, qty) == price
LineTotal(price, qty) == price * qty

\* the rows of order_items of one order, as GetOrder selects them
ItemsOf(table, id) == SelectSeq(table, LAMBDA row : row.order_id = id)

\* the product, quantity and price columns of order_items rows
Columns(rows) ==
    [i \in 1..Len(rows) |-> [product_id |-> rows[i].product_id,
                             quantity |-> rows[i].quantity,
                             price |-> rows[i].price]]

DbInit ==
    /\ products = [p \in ProductIDs |-> IF p = 1 THEN 10 ELSE 20]
    /\ orders = <<>>
    /\ orderItems = <<>>
    /\ dbReserved = 0
    /\ dbShared = {}
    /\ call = [c \in Callers |-> IdleCall]
    /\ rdPc = "idle"
    /\ rdOrder = NoRow
    /\ rdSeen = NoRes

\* tx.Rollback(), or the end of a failed Commit: the transaction's rows are
\* dropped, its locks released, and the error is returned
TxFail(c, e) ==
    /\ call' = [call EXCEPT ![c].pc = "done", ![c].err = e,
                            ![c].txOrder = NoRow, ![c].txItems = <<>>]
    /\ dbReserved' = IF dbReserved = c THEN 0 ELSE dbReserved
    /\ dbShared' = dbShared \ {c}
    /\ UNCHANGED <<products, orders, orderItems>>

\* tx, err := dm.db.Begin()
TxBegin(c, next) ==
    \/ /\ call' = [call EXCEPT ![c].pc = next]
       /\ UNCHANGED <<products, orders, orderItems, dbReserved, dbShared>>
    \/ TxFail(c, "begin failed")

\* tx.Exec(orderQuery, ...) and result.LastInsertId(); order.ID = int(orderID)
TxInsertOrder(c) ==
    \/ /\ dbReserved \in {0, c}
       /\ LET id == Len(orders) + 1
              row == [id |-> id, user_id |-> call[c].userID,
                      total |-> call[c].total, status |-> call[c].status,
                      by |-> c]
              done == ExecInsert(orders, <<>>, row)
          IN  /\ orders' = done.table
              /\ call' = [call EXCEPT ![c].pc = "insertItems", ![c].idx = 1,
                                      ![c].orderID = id,
                                      ![c].txOrder =
                                          IF done.tx = <<>> THEN NoRow ELSE done.tx[1]]
       /\ dbReserved' = c
       /\ dbShared' = dbShared \cup {c}
       /\ UNCHANGED <<products, orderItems>>
    \/ TxFail(c, "create order failed")
    \/ TxFail(c, "get order id failed")

\* for _, item := range items { tx.Exec(itemQuery, ...) }
TxInsertItem(c) ==
    IF call[c].idx > Len(call[c].items)
    THEN /\ call' = [call EXCEPT ![c].pc = "commit"]
         /\ UNCHANGED <<products, orders, orderItems, dbReserved, dbShared>>
    ELSE \/ LET item == call[c].items[call[c].idx]
                row == [order_id |-> call[c].orderID,
                        product_id |-> item.product_id,
                        quantity |-> item.quantity,
                        price |-> item.price, by |-> c]
                done == ExecInsert(orderItems, call[c].txItems, row)
            IN  /\ orderItems' = done.table
                /\ call' = [call EXCEPT ![c].idx = @ + 1, ![c].txItems = done.tx]
                /\ UNCHANGED <<products, orders, dbReserved, dbShared>>
         \/ TxFail(c, "create order item failed")

\* tx.Commit()
TxCommit(c) ==
    \/ /\ dbShared \subseteq {c}
       /\ orders' = IF call[c].txOrder = NoRow THEN orders
                    ELSE Append(orders, call[c].txOrder)
       /\ orderItems' = orderItems \o call[c].txItems
       /\ call' = [call EXCEPT ![c].pc = "done", ![c].err = "nil",
                               ![c].txOrder = NoRow, ![c].txItems = <<>>]
       /\ dbReserved' = 0
       /\ dbShared' = dbShared \ {c}
       /\ UNCHANGED products
    \/ TxFail(c, "commit failed")

\* a caller calls CreateOrder(order) with order.Items = items
CoCall(c, items) ==
    /\ call[c].pc = "idle"
    /\ call' = [call EXCEPT ![c] = [IdleCall EXCEPT !.op = "CreateOrder",
                    !.pc = "begin", !.userID = 1, !.total = 7,
                    !.status = "paid",
                    !.items = [i \in 1..Len(items) |->
                                  [items[i] EXCEPT !.price = 5]]]]
    /\ UNCHANGED <<products, orders, orderItems, dbReserved, dbShared>>
    /\ UNCHANGED rdVars
    /\ UNCHANGED notDb

CoBegin(c) ==
    /\ call[c].op = "CreateOrder" /\ call[c].pc = "begin"
    /\ TxBegin(c, "insertOrder")
    /\ UNCHANGED rdVars
    /\ UNCHANGED notDb

CoInsertOrder(c) ==
    /\ call[c].op = "CreateOrder" /\ call[c].pc = "insertOrder"
    /\ TxInsertOrder(c)
    /\ UNCHANGED rdVars
    /\ UNCHANGED notDb

CoInsertItem(c) ==
    /\ call[c].op = "CreateOrder" /\ call[c].pc = "insertItems"
    /\ TxInsertItem(c)
    /\ UNCHANGED rdVars
    /\ UNCHANGED notDb

CoCommit(c) ==
    /\ call[c].op = "CreateOrder" /\ call[c].pc = "commit"
    /\ TxCommit(c)
    /\ UNCHANGED rdVars
    /\ UNCHANGED notDb

\* a caller calls ProcessOrder(userID, items)
PoCall(c, items) ==
    /\ call[c].pc = "idle"
    /\ call' = [call EXCEPT ![c] = [IdleCall EXCEPT !.op = "ProcessOrder",
                    !.pc = "begin", !.userID = 1, !.items = items]]
    /\ UNCHANGED <<products, orders, orderItems, dbReserved, dbShared>>
    /\ UNCHANGED rdVars
    /\ UNCHANGED notDb

PoBegin(c) ==
    /\ call[c].op = "ProcessOrder" /\ call[c].pc = "begin"
    /\ \/ /\ call' = [call EXCEPT ![c].pc = "prices", ![c].idx = 1]
          /\ UNCHANGED <<products, orders, orderItems, dbReserved, dbShared>>
       \/ TxFail(c, "begin failed")
    /\ UNCHANGED rdVars
    /\ UNCHANGED notDb

\* for i := range items { tx.QueryRow(SELECT price ...).Scan(&price); ... }
\* and, after the loop, order := &Order{..., Status: "pending"}
PoPrice(c) ==
    /\ call[c].op = "ProcessOrder" /\ call[c].pc = "prices"
    /\ IF call[c].idx > Len(call[c].items)
       THEN /\ call' = [call EXCEPT ![c].pc = "insertOrder", ![c].status = "pending"]
            /\ UNCHANGED <<products, orders, orderItems, dbReserved, dbShared>>
       ELSE LET item == call[c].items[call[c].idx] IN
            \/ /\ item.product_id \in DOMAIN products
               /\ LET price == products[item.product_id] IN
                  call' = [call EXCEPT
                      ![c].total = @ + LineTotal(price, item.quantity),
                      ![c].items[call[c].idx].price = price,
                      ![c].idx = @ + 1]
               /\ dbShared' = dbShared \cup {c}
               /\ UNCHANGED <<products, orders, orderItems, dbReserved>>
            \/ TxFail(c, "get product price failed")
    /\ UNCHANGED rdVars
    /\ UNCHANGED notDb

PoInsertOrder(c) ==
    /\ call[c].op = "ProcessOrder" /\ call[c].pc = "insertOrder"
    /\ TxInsertOrder(c)
    /\ UNCHANGED rdVars
    /\ UNCHANGED notDb

PoInsertItem(c) ==
    /\ call[c].op = "ProcessOrder" /\ call[c].pc = "insertItems"
    /\ TxInsertItem(c)
    /\ UNCHANGED rdVars
    /\ UNCHANGED notDb

PoCommit(c) ==
    /\ call[c].op = "ProcessOrder" /\ call[c].pc = "commit"
    /\ TxCommit(c)
    /\ UNCHANGED rdVars
    /\ UNCHANGED notDb

\* UpdateProduct by some other client: one UPDATE statement on its own, which
\* SQLite refuses while a transaction holds a lock (the call then returns an
\* error and changes nothing)
UpdateProduct(pid, price) ==
    /\ pid \in DOMAIN products
    /\ products[pid] # price
    /\ dbReserved = 0
    /\ dbShared = {}
    /\ products' = [products EXCEPT ![pid] = price]
    /\ UNCHANGED <<orders, orderItems, dbReserved, dbShared, call>>
    /\ UNCHANGED rdVars
    /\ UNCHANGED notDb

\* GetOrder by some other client, first query: the orders row
GetOrderRow(id) ==
    /\ rdPc = "idle"
    /\ IF id \in 1..Len(orders)
       THEN /\ rdOrder' = orders[id]
            /\ rdPc' = "items"
            /\ UNCHANGED rdSeen
       ELSE /\ rdSeen' = [op |-> "GetOrder", id |-> id, err |-> "order not found"]
            /\ UNCHANGED <<rdOrder, rdPc>>
    /\ UNCHANGED <<products, orders, orderItems, dbReserved, dbShared, call>>
    /\ UNCHANGED notDb

\* GetOrder, second query: the order_items rows of that order
GetOrderItems ==
    /\ rdPc = "items"
    /\ rdSeen' = [op |-> "GetOrder", id |-> rdOrder.id, err |-> "nil",
                  order |-> rdOrder,
                  items |-> Columns(ItemsOf(orderItems, rdOrder.id))]
    /\ rdPc' = "idle"
    /\ UNCHANGED <<products, orders, orderItems, dbReserved, dbShared, call, rdOrder>>
    /\ UNCHANGED notDb

\* callers of CreateOrder next to a reader
CoNext ==
    \/ \E c \in Callers, items \in CoItemLists : CoCall(c, items)
    \/ \E c \in Callers : CoBegin(c)
    \/ \E c \in Callers : CoInsertOrder(c)
    \/ \E c \in Callers : CoInsertItem(c)
    \/ \E c \in Callers : CoCommit(c)
    \/ \E id \in OrderIDs : GetOrderRow(id)
    \/ GetOrderItems

\* callers of ProcessOrder next to a client changing prices
PoNext ==
    \/ \E c \in Callers, items \in PoItemLists : PoCall(c, items)
    \/ \E c \in Callers : PoBegin(c)
    \/ \E c \in Callers : PoPrice(c)
    \/ \E c \in Callers : PoInsertOrder(c)
    \/ \E c \in Callers : PoInsertItem(c)
    \/ \E c \in Callers : PoCommit(c)
    \/ \E p \in ProductIDs, price \in Prices : UpdateProduct(p, price)

\* the rows a finished call has left in the two tables
OrdersBy(c) == SelectSeq(orders, LAMBDA row : row.by = c)
ItemsBy(c) == SelectSeq(orderItems, LAMBDA row : row.by = c)

Finished(c, op) == call[c].op = op /\ call[c].pc = "done"

\* the order of a call is stored with all of its items
StoredWhole(c) ==
    /\ Len(OrdersBy(c)) = 1
    /\ OrdersBy(c)[1].id = call[c].orderID
    /\ OrdersBy(c)[1].user_id = call[c].userID
    /\ OrdersBy(c)[1].total = call[c].total
    /\ OrdersBy(c)[1].status = call[c].status
    /\ Columns(ItemsBy(c)) = call[c].items
    /\ ItemsBy(c) = ItemsOf(orderItems, call[c].orderID)

StoredNothing(c) == OrdersBy(c) = <<>> /\ ItemsBy(c) = <<>>

\* C7: CreateOrder is all-or-nothing: when it returns nil the orders row and
\* one order_items row per element of order.Items are all stored; when it
\* returns an error none of them is stored; and no other reader ever observes
\* the order with only part of its items.
C7_CreateOrderAllOrNothing ==
    /\ \A c \in Callers :
          Finished(c, "CreateOrder") =>
              IF call[c].err = "nil" THEN StoredWhole(c) ELSE StoredNothing(c)
    /\ \A c \in Callers :
          (call[c].op = "CreateOrder" /\ call[c].pc # "done") => StoredNothing(c)
    /\ (rdSeen.op = "GetOrder" /\ rdSeen.err = "nil"
            /\ call[rdSeen.order.by].op = "CreateOrder")
          => rdSeen.items = call[rdSeen.order.by].items

\* one CreateOrder failed after inserting its first item, another stored an
\* order of two items, which a reader then fetched
C7_Witness ==
    \E c1, c2 \in Callers :
        /\ Finished(c1, "CreateOrder")
        /\ call[c1].err = "create order item failed"
        /\ call[c1].idx = 2
        /\ Finished(c2, "CreateOrder")
        /\ call[c2].err = "nil"
        /\ Len(call[c2].items) = 2
        /\ rdSeen.op = "GetOrder" /\ rdSeen.err = "nil"
        /\ rdSeen.order.by = c2
        /\ Len(rdSeen.items) = 2

\* sum over items of (price of the item's product in prods) x quantity
PricedTotal(prods, items) ==
    SumSeq([i \in 1..Len(items) |->
               prods[items[i].product_id] * items[i].quantity])

\* a ProcessOrder call returns successfully in this step
PoSucceeds(c) ==
    /\ call[c].op = "ProcessOrder"
    /\ call[c].pc = "commit"
    /\ call'[c].pc = "done"
    /\ call'[c].err = "nil"

\* C8: ProcessOrder on success stores exactly one order with status "pending"
\* whose total equals the sum over items of (current products.price of
\* item.ProductID x item.Quantity) and stores each item with that price; if
\* any item's product does not exist it returns an error and neither the
\* order nor any of its items is stored.
C8_ProcessOrderTotals ==
    /\ [](\A c \in Callers :
            Finished(c, "ProcessOrder") =>
                IF call[c].err = "nil"
                THEN /\ StoredWhole(c)
                     /\ OrdersBy(c)[1].status = "pending"
                     /\ \A i \in 1..Len(call[c].items) :
                            call[c].items[i].product_id \in DOMAIN products
                ELSE StoredNothing(c))
    /\ [][\A c \in Callers :
            PoSucceeds(c) =>
                /\ orders'[Len(orders')].by = c
                /\ orders'[Len(orders')].total = PricedTotal(products', call[c].items)
                /\ \A i \in 1..Len(ItemsBy(c)') :
                       ItemsBy(c)'[i].price = products'[ItemsBy(c)'[i].product_id]
                /\ Len(ItemsBy(c)') = Len(call[c].items)]_vars

\* a ProcessOrder of two items of different products succeeded after a price
\* had been changed, and another ProcessOrder naming a missing product failed
C8_Witness ==
    \E c1, c2 \in Callers :
        /\ Finished(c1, "ProcessOrder")
        /\ call[c1].err = "nil"
        /\ Len(call[c1].items) = 2
        /\ call[c1].items[1].product_id # call[c1].items[2].product_id
        /\ call[c1].items[1].price = 20
        /\ call[c1].total = 60
        /\ Finished(c2, "ProcessOrder")
        /\ call[c2].err = "get product price failed"
        /\ \E i \in 1..Len(call[c2].items) :
               call[c2].items[i].product_id \notin DOMAIN products

----------------------------------------------------------------------------
(* concurrentSquareSum, 11-database.go.  ch is unbuffered: a send completes *)
(* only together with a receive of the ranging caller.                      *)

\* longest input slice
MaxNumbers == 3

SqValues == {1, 2, 3}

\* the input slices: every sequence over SqValues of length <= MaxNumbers
SqInputs == UNION {[1..n -> SqValues] : n \in 0..MaxNumbers}

\* wg.Wait() of the closing goroutine returns when the counter is zero
CloserMayCloseAlways(n) == TRUE
CloserMayClose(n) == n = 0

\* n * n
Square(n) == n * n

SqInit ==
    /\ numbers \in SqInputs
    /\ sqPc = "spawn"
    /\ sqI = 1
    /\ sqWg = 0
    /\ sqClosed = FALSE
    /\ sqPanic = FALSE
    /\ sqSender = [i \in 1..MaxNumbers |-> "unborn"]
    /\ sqCloser = "unborn"
    /\ sqSum = 0
    /\ sqGot = <<>>

\* for _, num := range numbers { wg.Add(1); go func(n int) {...}(num) }
SqSpawn ==
    /\ ~sqPanic
    /\ sqPc = "spawn"
    /\ IF sqI <= Len(numbers)
       THEN /\ sqWg' = sqWg + 1
            /\ sqSender' = [sqSender EXCEPT ![sqI] = "send"]
            /\ sqI' = sqI + 1
            /\ UNCHANGED sqPc
       ELSE /\ sqPc' = "spawnCloser"
            /\ UNCHANGED <<sqWg, sqSender, sqI>>
    /\ UNCHANGED <<numbers, sqClosed, sqPanic, sqCloser, sqSum, sqGot>>
    /\ UNCHANGED notSq

\* go func() { wg.Wait(); close(ch) }()
SqSpawnCloser ==
    /\ ~sqPanic
    /\ sqPc = "spawnCloser"
    /\ sqCloser' = "wait"
    /\ sqPc' = "range"
    /\ UNCHANGED <<numbers, sqI, sqWg, sqClosed, sqPanic, sqSender, sqSum, sqGot>>
    /\ UNCHANGED notSq

\* ch <- n * n: on a closed channel the send panics; otherwise it completes
\* together with the receive of `for square := range ch`, and sum += square
SqSend(i) ==
    /\ ~sqPanic
    /\ sqSender[i] = "send"
    /\ IF sqClosed
       THEN /\ sqPanic' = TRUE
            /\ UNCHANGED <<sqSum, sqGot, sqSender>>
       ELSE /\ sqPc = "range"
            /\ sqSum' = sqSum + Square(numbers[i])
            /\ sqGot' = Append(sqGot, i)
            /\ sqSender' = [sqSender EXCEPT ![i] = "sent"]
            /\ UNCHANGED sqPanic
    /\ UNCHANGED <<numbers, sqPc, sqI, sqWg, sqClosed, sqCloser>>
    /\ UNCHANGED notSq

\* the deferred wg.Done()
SqDone(i) ==
    /\ ~sqPanic
    /\ sqSender[i] = "sent"
    /\ sqWg' = sqWg - 1
    /\ sqSender' = [sqSender EXCEPT ![i] = "exited"]
    /\ UNCHANGED <<numbers, sqPc, sqI, sqClosed, sqPanic, sqCloser, sqSum, sqGot>>
    /\ UNCHANGED notSq

\* wg.Wait() returns
SqCloserWait ==
    /\ ~sqPanic
    /\ sqCloser = "wait"
    /\ CloserMayClose(sqWg)
    /\ sqCloser' = "close"
    /\ UNCHANGED <<numbers, sqPc, sqI, sqWg, sqClosed, sqPanic, sqSender, sqSum, sqGot>>
    /\ UNCHANGED notSq

\* close(ch)
SqClose ==
    /\ ~sqPanic
    /\ sqCloser = "close"
    /\ sqClosed' = TRUE
    /\ sqCloser' = "exited"
    /\ UNCHANGED <<numbers, sqPc, sqI, sqWg, sqPanic, sqSender, sqSum, sqGot>>
    /\ UNCHANGED notSq

\* the range loop ends on the closed channel; return sum
SqReturn ==
    /\ ~sqPanic
    /\ sqPc = "range"
    /\ sqClosed
    /\ sqPc' = "done"
    /\ UNCHANGED <<numbers, sqI, sqWg, sqClosed, sqPanic, sqSender, sqCloser, sqSum, sqGot>>
    /\ UNCHANGED notSq

SqNext ==
    \/ SqSpawn
    \/ SqSpawnCloser
    \/ \E i \in 1..MaxNumbers : SqSend(i)
    \/ \E i \in 1..MaxNumbers : SqDone(i)
    \/ SqCloserWait
    \/ SqClose
    \/ SqReturn

\* the Go scheduler lets every goroutine that can run eventually run
SqFairness ==
    /\ WF_sqVars(SqSpawn) /\ WF_sqVars(SqSpawnCloser)
    /\ \A i \in 1..MaxNumbers : WF_sqVars(SqSend(i)) /\ WF_sqVars(SqDone(i))
    /\ WF_sqVars(SqCloserWait) /\ WF_sqVars(SqClose) /\ WF_sqVars(SqReturn)

SumOfSquares(s) == SumSeq([i \in 1..Len(s) |-> s[i] * s[i]])

SqIndexes == 1..Len(numbers)

\* every goroutine of the call is gone and the caller has its result
SqAllFinished ==
    /\ sqPc = "done"
    /\ sqCloser = "exited"
    /\ \A i \in SqIndexes : sqSender[i] = "exited"

\* C9: concurrentSquareSum(numbers) returns the sum of the squares of all
\* elements under every interleaving and always terminates (also for an empty
\* slice): each square is received exactly once, the channel is closed only
\* after every sender has completed its send, no goroutine sends on the closed
\* channel, and no goroutine is left blocked.
C9_SquareSumTerminates ==
    /\ [](/\ ~sqPanic
          /\ \A j, k \in 1..Len(sqGot) : j # k => sqGot[j] # sqGot[k]
          /\ sqClosed => \A i \in SqIndexes : sqSender[i] \in {"sent", "exited"}
          /\ sqPc = "done" => /\ sqSum = SumOfSquares(numbers)
                              /\ Range(sqGot) = SqIndexes)
    /\ <>[]SqAllFinished

\* the call returned for a slice of MaxNumbers elements, two of them equal
C9_Witness ==
    /\ SqAllFinished
    /\ Len(numbers) = MaxNumbers
    /\ numbers[1] = numbers[2]
    /\ sqSum = SumOfSquares(numbers)
    /\ sqGot[1] = MaxNumbers

----------------------------------------------------------------------------
(* The worker pool of main: workerProducerConsumer, 11-database.go *)

NumWorkers == 3
ChanCap == 100

\* number of jobs main sends (9 in main), scaled down
NumJobs == 5

Workers == 1..NumWorkers

\* results <- j * 2
ProcessJobPlus(j) == j + 2
ProcessJob(j) == j * 2

WpInit ==
    /\ jobs = <<>>
    /\ jobsClosed = FALSE
    /\ results = <<>>
    /\ wPc = [w \in Workers |-> "range"]
    /\ wJob = [w \in Workers |-> 0]
    /\ pmPc = "send"
    /\ pmJ = 1
    /\ pmR = 1
    /\ pmGot = {}
    /\ taken = [j \in 1..NumJobs |-> 0]
    /\ tookAny = {}

\* for j := 1; j <= 9; j++ { jobs <- j }
WpSend ==
    /\ pmPc = "send"
    /\ IF pmJ <= NumJobs
       THEN /\ Len(jobs) < ChanCap
            /\ jobs' = Append(jobs, pmJ)
            /\ pmJ' = pmJ + 1
            /\ UNCHANGED pmPc
       ELSE /\ pmPc' = "close"
            /\ UNCHANGED <<jobs, pmJ>>
    /\ UNCHANGED <<jobsClosed, results, wPc, wJob, pmR, pmGot, taken, tookAny>>
    /\ UNCHANGED notWp

\* close(jobs)
WpClose ==
    /\ pmPc = "close"
    /\ jobsClosed' = TRUE
    /\ pmPc' = "recv"
    /\ UNCHANGED <<jobs, results, wPc, wJob, pmJ, pmR, pmGot, taken, tookAny>>
    /\ UNCHANGED notWp

\* for r := 1; r <= 9; r++ { <-results }
WpRecv ==
    /\ pmPc = "recv"
    /\ IF pmR <= NumJobs
       THEN /\ results # <<>>
            /\ pmGot' = pmGot \cup {Head(results)}
            /\ results' = Tail(results)
            /\ pmR' = pmR + 1
            /\ UNCHANGED pmPc
       ELSE /\ pmPc' = "done"
            /\ UNCHANGED <<results, pmR, pmGot>>
    /\ UNCHANGED <<jobs, jobsClosed, wPc, wJob, pmJ, taken, tookAny>>
    /\ UNCHANGED notWp

\* for j := range jobs: the worker takes the next job
WTake(w) ==
    /\ wPc[w] = "range"
    /\ jobs # <<>>
    /\ wJob' = [wJob EXCEPT ![w] = Head(jobs)]
    /\ jobs' = Tail(jobs)
    /\ taken' = [taken EXCEPT ![Head(jobs)] = @ + 1]
    /\ tookAny' = tookAny \cup {w}
    /\ wPc' = [wPc EXCEPT ![w] = "work"]
    /\ UNCHANGED <<jobsClosed, results, pmPc, pmJ, pmR, pmGot>>
    /\ UNCHANGED notWp

\* for j := range jobs: jobs is closed and drained, the loop ends
WExit(w) ==
    /\ wPc[w] = "range"
    /\ jobs = <<>>
    /\ jobsClosed
    /\ wPc' = [wPc EXCEPT ![w] = "exited"]
    /\ UNCHANGED <<jobs, jobsClosed, results, wJob, pmPc, pmJ, pmR, pmGot, taken, tookAny>>
    /\ UNCHANGED notWp

\* time.Sleep, then results <- j * 2
WResult(w) ==
    /\ wPc[w] = "work"
    /\ Len(results) < ChanCap
    /\ results' = Append(results, ProcessJob(wJob[w]))
    /\ wPc' = [wPc EXCEPT ![w] = "range"]
    /\ UNCHANGED <<jobs, jobsClosed, wJob, pmPc, pmJ, pmR, pmGot, taken, tookAny>>
    /\ UNCHANGED notWp

WpNext ==
    \/ WpSend
    \/ WpClose
    \/ WpRecv
    \/ \E w \in Workers : WTake(w)
    \/ \E w \in Workers : WExit(w)
    \/ \E w \in Workers : WResult(w)

\* the Go scheduler lets every goroutine that can run eventually run
WpFairness ==
    /\ WF_wpVars(WpSend) /\ WF_wpVars(WpClose) /\ WF_wpVars(WpRecv)
    /\ \A w \in Workers :
          WF_wpVars(WTake(w)) /\ WF_wpVars(WExit(w)) /\ WF_wpVars(WResult(w))

NoDuplicates(s) == \A j, k \in 1..Len(s) : j # k => s[j] # s[k]

Doubles == {2 * j : j \in 1..NumJobs}

\* main has all its results and every worker has left its loop
WpAllFinished ==
    /\ pmPc = "done"
    /\ \A w \in Workers : wPc[w] = "exited"

\* C10: in the worker-pool demo every job is taken by exactly one worker,
\* exactly 9 results are produced and each is 2 x a distinct job number, main
\* receives all 9 without blocking forever, and every worker leaves its range
\* loop once jobs is closed and drained.
C10_WorkerPool ==
    /\ [](/\ \A j \in 1..NumJobs : taken[j] <= 1
          /\ NoDuplicates(results)
          /\ Range(results) \cap pmGot = {}
          /\ Cardinality(pmGot) = pmR - 1
          /\ Range(results) \cup pmGot \subseteq Doubles
          /\ pmPc = "done" => pmGot = Doubles
          /\ (\A w \in Workers : wPc[w] = "exited")
                => /\ \A j \in 1..NumJobs : taken[j] = 1
                   /\ Range(results) \cup pmGot = Doubles)
    /\ <>[]WpAllFinished

\* the demo ran to its end, every worker having taken at least one job
C10_Witness ==
    /\ WpAllFinished
    /\ pmGot = Doubles
    /\ tookAny = Workers
    /\ results = <<>>

----------------------------------------------------------------------------
(* Queue (3-control-flow.go, 9-testing-benchmark.go) and queueTest.        *)
(* Enqueue, Dequeue and Size hold q.mu from their first statement to their *)
(* return, so each call is one step; Queue[T] of 8-error-handling.go has   *)
(* the same bodies without the mutex.                                      *)

MaxQueueOps == 5       \* the calls a free caller makes
MaxQueueTest == 3      \* the 10000 of queueTest, scaled down
QItems == {10, 11}
Nil == -1              \* nil, which is no item

\* Dequeue taking the newest element: a stack
DequeueLast(items) ==
    IF Len(items) = 0
    THEN [item |-> Nil, ok |-> FALSE, items |-> items]
    ELSE [item |-> items[Len(items)], ok |-> TRUE,
          items |-> SubSeq(items, 1, Len(items) - 1)]

\* Queue.Dequeue as a function of q.items: the returned pair and the new q.items
DequeueOf(items) ==
    IF Len(items) = 0
    THEN [item |-> Nil, ok |-> FALSE, items |-> items]
    ELSE [item |-> items[1], ok |-> TRUE, items |-> Tail(items)]

\* q.items = append(q.items, item)
EnqueueOf(items, item) == Append(items, item)

NoCall == [op |-> "none"]

\* NewQueue(); the caller is either a free caller ("ops") or queueTest
QInit ==
    /\ qItems = <<>>
    /\ qLog = <<>>
    /\ qOut = <<>>
    /\ qRes = NoCall
    /\ qOps = 0
    /\ qtPc \in {"ops", "enqueue"}
    /\ qtN \in 0..MaxQueueTest
    /\ qtPc = "ops" => qtN = 0
    /\ qtI = 0
    /\ dequeued = 0

\* q.Enqueue(item) by a free caller
Enqueue(item) ==
    /\ qtPc = "ops"
    /\ qOps < MaxQueueOps
    /\ qItems' = EnqueueOf(qItems, item)
    /\ qLog' = Append(qLog, item)
    /\ qRes' = [op |-> "Enqueue"]
    /\ qOps' = qOps + 1
    /\ UNCHANGED <<qOut, qtPc, qtN, qtI, dequeued>>
    /\ UNCHANGED notQ

\* q.Dequeue() by a free caller
Dequeue ==
    /\ qtPc = "ops"
    /\ qOps < MaxQueueOps
    /\ LET d == DequeueOf(qItems) IN
         /\ qItems' = d.items
         /\ qOut' = IF d.ok THEN Append(qOut, d.item) ELSE qOut
         /\ qRes' = [op |-> "Dequeue", item |-> d.item, ok |-> d.ok]
    /\ qOps' = qOps + 1
    /\ UNCHANGED <<qLog, qtPc, qtN, qtI, dequeued>>
    /\ UNCHANGED notQ

\* q.Size() by a free caller
Size ==
    /\ qtPc = "ops"
    /\ qOps < MaxQueueOps
    /\ qRes' = [op |-> "Size", n |-> Len(qItems)]
    /\ qOps' = qOps + 1
    /\ UNCHANGED <<qItems, qLog, qOut, qtPc, qtN, qtI, dequeued>>
    /\ UNCHANGED notQ

\* queueTest: for i := 0; i < 10000; i++ { queue.Enqueue(i) }
QtEnqueue ==
    /\ qtPc = "enqueue"
    /\ IF qtI < qtN
       THEN /\ qItems' = EnqueueOf(qItems, qtI)
            /\ qLog' = Append(qLog, qtI)
            /\ qRes' = [op |-> "Enqueue"]
            /\ qtI' = qtI + 1
            /\ UNCHANGED qtPc
       ELSE /\ qtPc' = "drain"
            /\ UNCHANGED <<qItems, qLog, qRes, qtI>>
    /\ UNCHANGED <<qOut, qOps, qtN, dequeued>>
    /\ UNCHANGED notQ

\* queueTest: for { if _, ok := queue.Dequeue(); ok { dequeued++ } else { break } }
QtDrain ==
    /\ qtPc = "drain"
    /\ LET d == DequeueOf(qItems) IN
         /\ qItems' = d.items
         /\ qOut' = IF d.ok THEN Append(qOut, d.item) ELSE qOut
         /\ qRes' = [op |-> "Dequeue", item |-> d.item, ok |-> d.ok]
         /\ dequeued' = IF d.ok THEN dequeued + 1 ELSE dequeued
         /\ qtPc' = IF d.ok THEN "drain" ELSE "done"
    /\ UNCHANGED <<qLog, qOps, qtN, qtI>>
    /\ UNCHANGED notQ

QNext ==
    \/ \E item \in QItems : Enqueue(item)
    \/ Dequeue
    \/ Size
    \/ QtEnqueue
    \/ QtDrain

\* C11: successful Dequeues return the items in the order of their Enqueue;
\* Size is the number of Enqueues minus the number of successful Dequeues; a
\* Dequeue on an empty queue returns (nil, false) and changes nothing; the
\* drain loop after k Enqueues makes exactly k successful Dequeues before its
\* first failure.
C11_QueueFIFO ==
    /\ [](/\ qOut \o qItems = qLog
          /\ qRes.op = "Size" => qRes.n = Len(qLog) - Len(qOut)
          /\ qRes.op = "Dequeue" /\ ~qRes.ok => qRes.item = Nil /\ qItems = <<>>
          /\ qRes.op = "Dequeue" /\ qRes.ok => qRes.item = qOut[Len(qOut)]
          /\ qtPc = "drain" => dequeued + Len(qItems) = qtN
          /\ qtPc = "done" => dequeued = qtN /\ qOut = qLog /\ Len(qLog) = qtN)
    /\ [][(Dequeue \/ QtDrain) /\ qItems = <<>>
            => /\ qItems' = qItems
               /\ qOut' = qOut
               /\ qRes' = [op |-> "Dequeue", item |-> Nil, ok |-> FALSE]]_vars

\* queueTest drained its full queue in order, the failing Dequeue ending it
C11_Witness ==
    /\ qtPc = "done"
    /\ qtN = MaxQueueTest
    /\ dequeued = MaxQueueTest
    /\ qOut = [i \in 1..MaxQueueTest |-> i - 1]
    /\ qRes = [op |-> "Dequeue", item |-> Nil, ok |-> FALSE]

----------------------------------------------------------------------------
(* retryOperation (8-error-handling.go)                                    *)

MaxRetries == 4        \* the largest maxRetries tried; main passes 3
RtResults == {0, 42}   \* what operation() may return as its int
RtErrs == {"nil", "err"}

\* waiting after every failed attempt, the last one too
ShouldWaitAlways(i, maxRetries) == i < maxRetries

\* if i < maxRetries-1
ShouldWait(i, maxRetries) == i < maxRetries - 1

RtInit ==
    /\ rtMax \in 0..MaxRetries
    /\ rtI = 0
    /\ rtPc = "loop"
    /\ rtHist = <<>>
    /\ rtSleeps = 0
    /\ rtRet = [result |-> 0, err |-> "none"]

\* one pass of the for loop up to the sleep: the test i < maxRetries, the call
\* of operation() with whatever it returns, the return on success
RtAttempt ==
    /\ rtPc = "loop"
    /\ rtI < rtMax
    /\ \E result \in RtResults, err \in RtErrs :
         /\ rtHist' = Append(rtHist, [result |-> result, err |-> err])
         /\ IF err = "nil"
            THEN /\ rtRet' = [result |-> result, err |-> "nil"]
                 /\ rtPc' = "returned"
                 /\ UNCHANGED rtI
            ELSE IF ShouldWait(rtI, rtMax)
            THEN /\ rtPc' = "sleep"
                 /\ UNCHANGED <<rtI, rtRet>>
            ELSE /\ rtI' = rtI + 1
                 /\ UNCHANGED <<rtPc, rtRet>>
    /\ UNCHANGED <<rtMax, rtSleeps>>
    /\ UNCHANGED notRt

\* time.Sleep(time.Millisecond * 500), then i++
RtSleep ==
    /\ rtPc = "sleep"
    /\ rtSleeps' = rtSleeps + 1
    /\ rtI' = rtI + 1
    /\ rtPc' = "loop"
    /\ UNCHANGED <<rtMax, rtHist, rtRet>>
    /\ UNCHANGED notRt

\* the loop is over: return 0, fmt.Errorf(...)
RtGiveUp ==
    /\ rtPc = "loop"
    /\ ~(rtI < rtMax)
    /\ rtRet' = [result |-> 0, err |-> "retries"]
    /\ rtPc' = "returned"
    /\ UNCHANGED <<rtMax, rtI, rtHist, rtSleeps>>
    /\ UNCHANGED notRt

RtNext ==
    \/ RtAttempt
    \/ RtSleep
    \/ RtGiveUp

RtFailed(k) == rtHist[k].err # "nil"

\* C12: retryOperation invokes op at most maxRetries times; it returns op's
\* result and a nil error right after the first successful invocation and
\* never invokes op again; it returns (0, error) only after maxRetries failed
\* invocations in a row; it sleeps between attempts, not after the last one.
C12_RetryOperation ==
    /\ [](/\ Len(rtHist) <= rtMax
          /\ \A k \in 1..(Len(rtHist) - 1) : RtFailed(k)
          /\ rtPc # "returned" => \A k \in 1..Len(rtHist) : RtFailed(k)
          /\ rtPc = "returned" /\ rtRet.err = "nil"
               => /\ Len(rtHist) >= 1
                  /\ rtHist[Len(rtHist)] = rtRet
                  /\ rtSleeps = Len(rtHist) - 1
          /\ rtPc = "returned" /\ rtRet.err # "nil"
               => /\ rtRet.result = 0
                  /\ Len(rtHist) = rtMax
                  /\ \A k \in 1..Len(rtHist) : RtFailed(k)
                  /\ rtSleeps = (IF rtMax = 0 THEN 0 ELSE rtMax - 1)
          /\ rtPc = "sleep" => Len(rtHist) < rtMax /\ rtSleeps = Len(rtHist) - 1
          /\ rtPc = "loop" => rtSleeps = (IF Len(rtHist) = rtMax /\ rtMax > 0
                                           THEN rtMax - 1 ELSE Len(rtHist)))
    /\ [][rtPc = "returned" => rtHist' = rtHist /\ rtRet' = rtRet]_vars

\* every attempt but the last failed and was slept after; the last succeeds
C12_Witness ==
    /\ rtMax = MaxRetries
    /\ rtPc = "returned"
    /\ rtRet = [result |-> 42, err |-> "nil"]
    /\ Len(rtHist) = MaxRetries
    /\ rtSleeps = MaxRetries - 1

----------------------------------------------------------------------------
(* updateUser and deleteUser, 10-web-server.go: PUT and DELETE /users/{id}. *)
(* They work on the same users map as createUser, again without a lock;     *)
(* each request runs on its own goroutine.                                  *)

\* number of PUT and DELETE requests sent to the server
MaxEdits == 2

Edits == 1..MaxEdits

StatusOK == 200
StatusNoContent == 204
StatusNotFound == 404

\* what follows "/users/" in the request path, as a sequence of characters
PathIDs == {<<"1">>, <<"+", "2">>, <<"7">>, <<"-", "1">>, <<"a">>, <<"1", "a">>, <<>>}

DigitChars == {"0", "1", "2", "3", "4", "5", "6", "7", "8", "9"}

DigitVal(c) ==
    CASE c = "0" -> 0 [] c = "1" -> 1 [] c = "2" -> 2 [] c = "3" -> 3
      [] c = "4" -> 4 [] c = "5" -> 5 [] c = "6" -> 6 [] c = "7" -> 7
      [] c = "8" -> 8 [] c = "9" -> 9

RECURSIVE DecimalVal(_)
DecimalVal(ds) ==
    IF ds = <<>> THEN 0
    ELSE 10 * DecimalVal(SubSeq(ds, 1, Len(ds) - 1)) + DigitVal(ds[Len(ds)])

\* strconv.Atoi on these short texts: an optional sign, then one or more
\* decimal digits and nothing else; anything else is an error
Atoi(s) ==
    LET signed == Len(s) > 0 /\ s[1] \in {"+", "-"}
        ds == IF signed THEN Tail(s) ELSE s
    IN  IF Len(ds) = 0 \/ \E i \in 1..Len(ds) : ds[i] \notin DigitChars
        THEN [ok |-> FALSE, val |-> 0]
        ELSE [ok |-> TRUE,
              val |-> IF signed /\ s[1] = "-" THEN 0 - DecimalVal(ds) ELSE DecimalVal(ds)]

\* updateUser answering 404 before it reads the body
DecodeFailsNever(method, body) == FALSE

\* updateUser: json.NewDecoder(r.Body).Decode(&user) fails; deleteUser reads no body
DecodeFails(method, body) == method = "PUT" /\ body = "invalid"

\* delete(users, id)
MapDelete(m, id) == [k \in DOMAIN m \ {id} |-> m[k]]

\* the requests are in flight, none handled yet
EdInit ==
    /\ eMethod \in [Edits -> {"PUT", "DELETE"}]
    /\ ePath \in [Edits -> PathIDs]
    /\ eBody \in [Edits -> {"valid", "invalid"}]
    /\ \A e \in Edits : eMethod[e] = "DELETE" => eBody[e] = "valid"
    /\ ePc = [e \in Edits |-> "start"]
    /\ eID = [e \in Edits |-> 0]
    /\ eStatus = [e \in Edits |-> 0]
    /\ eFound = [e \in Edits |-> FALSE]

\* handleUsers dispatches on the method; the handler trims the path, calls
\* strconv.Atoi and, in updateUser, decodes the body: 400 on either error
EdStart(e) ==
    /\ ~crashed
    /\ ePc[e] = "start"
    /\ LET a == Atoi(ePath[e]) IN
         IF ~a.ok \/ DecodeFails(eMethod[e], eBody[e])
         THEN /\ eStatus' = [eStatus EXCEPT ![e] = StatusBadRequest]
              /\ ePc' = [ePc EXCEPT ![e] = "done"]
              /\ UNCHANGED eID
         ELSE /\ eID' = [eID EXCEPT ![e] = a.val]
              /\ ePc' = [ePc EXCEPT ![e] = "exists"]
              /\ UNCHANGED eStatus
    /\ UNCHANGED <<eMethod, ePath, eBody, eFound>>
    /\ UNCHANGED <<users, nextUserID, mapWriting, crashed>>
    /\ UNCHANGED notEd

\* if _, exists := users[id]; !exists { 404 }: a map read, which the runtime
\* answers by stopping the process when a goroutine is inside a write
EdExists(e) ==
    /\ ~crashed
    /\ ePc[e] = "exists"
    /\ IF mapWriting
       THEN /\ crashed' = TRUE
            /\ UNCHANGED <<ePc, eStatus, eFound>>
       ELSE /\ eFound' = [eFound EXCEPT ![e] = eID[e] \in DOMAIN users]
            /\ IF eID[e] \in DOMAIN users
               THEN /\ ePc' = [ePc EXCEPT ![e] = "mapBegin"]
                    /\ UNCHANGED eStatus
               ELSE /\ ePc' = [ePc EXCEPT ![e] = "done"]
                    /\ eStatus' = [eStatus EXCEPT ![e] = StatusNotFound]
            /\ UNCHANGED crashed
    /\ UNCHANGED <<eMethod, ePath, eBody, eID>>
    /\ UNCHANGED <<users, nextUserID, mapWriting>>
    /\ UNCHANGED notEd

\* users[id] = user or delete(users, id) begins
EdMapBegin(e) ==
    /\ ~crashed
    /\ ePc[e] = "mapBegin"
    /\ IF mapWriting
       THEN /\ crashed' = TRUE
            /\ UNCHANGED <<mapWriting, ePc>>
       ELSE /\ mapWriting' = TRUE
            /\ ePc' = [ePc EXCEPT ![e] = "mapEnd"]
            /\ UNCHANGED crashed
    /\ UNCHANGED <<eMethod, ePath, eBody, eID, eStatus, eFound>>
    /\ UNCHANGED <<users, nextUserID>>
    /\ UNCHANGED notEd

\* the map write completes and the response is written: the updated user
\* with 200, or 204; an updated user is named by minus its request
EdMapEnd(e) ==
    /\ ~crashed
    /\ ePc[e] = "mapEnd"
    /\ IF eMethod[e] = "PUT"
       THEN /\ users' = MapAssign(users, eID[e], 0 - e)
            /\ eStatus' = [eStatus EXCEPT ![e] = StatusOK]
       ELSE /\ users' = MapDelete(users, eID[e])
            /\ eStatus' = [eStatus EXCEPT ![e] = StatusNoContent]
    /\ mapWriting' = FALSE
    /\ ePc' = [ePc EXCEPT ![e] = "done"]
    /\ UNCHANGED <<eMethod, ePath, eBody, eID, eFound>>
    /\ UNCHANGED <<nextUserID, crashed>>
    /\ UNCHANGED notEd

EdNext ==
    \/ \E e \in Edits : EdStart(e)
    \/ \E e \in Edits : EdExists(e)
    \/ \E e \in Edits : EdMapBegin(e)
    \/ \E e \in Edits : EdMapEnd(e)

\* the path texts that denote an integer, and the integer each denotes
IntegerTexts == {<<"1">>, <<"+", "2">>, <<"7">>, <<"-", "1">>}

PathValue(s) ==
    CASE s = <<"1">> -> 1
      [] s = <<"+", "2">> -> 2
      [] s = <<"7">> -> 7
      [] s = <<"-", "1">> -> 0 - 1

\* handler e takes the step that ends it with this status
Responds(e, status) == eStatus[e] = 0 /\ eStatus'[e] = status

\* handler e looks its id up in users in this step
LooksUp(e) == ePc[e] = "exists" /\ ePc'[e] # "exists"

DeletedBefore(id) ==
    \E d \in Edits : /\ eMethod[d] = "DELETE"
                     /\ eStatus[d] = StatusNoContent
                     /\ ePath[d] \in IntegerTexts
                     /\ PathValue(ePath[d]) = id

NoPutOf(id) ==
    \A p \in Edits : eMethod[p] = "PUT" /\ ePath[p] \in IntegerTexts
                        => PathValue(ePath[p]) # id

\* C13 (amended): PUT and DELETE /users/{id} answer 400 exactly when the id
\* is not an integer or, for PUT, the body is not decodable JSON, whatever the
\* id; otherwise they answer 404 exactly when the id is not a key of users
\* when the handler looks it up.  A handler answering 400 or 404 leaves users
\* and nextUserID unchanged.  A DELETE of an existing id answers 204 and
\* removes exactly that key, so a later DELETE of the same id answers 404.
C13_EditResponses ==
    /\ [](\A e \in Edits :
            /\ eStatus[e] = StatusBadRequest
                 <=> /\ ePc[e] = "done"
                     /\ \/ ePath[e] \notin IntegerTexts
                        \/ eMethod[e] = "PUT" /\ eBody[e] = "invalid"
            /\ ePc[e] \notin {"start", "done"} \/ eStatus[e] \in {StatusNotFound, StatusOK, StatusNoContent}
                 => ePath[e] \in IntegerTexts /\ eID[e] = PathValue(ePath[e])
            /\ eStatus[e] = StatusOK => eMethod[e] = "PUT"
            /\ eStatus[e] = StatusNoContent => eMethod[e] = "DELETE")
    /\ [][/\ nextUserID' = nextUserID
          /\ \A e \in Edits :
               /\ LooksUp(e) /\ ~crashed'
                    => (Responds(e, StatusNotFound)
                          <=> PathValue(ePath[e]) \notin DOMAIN users)
               /\ LooksUp(e) /\ ~crashed' /\ eMethod[e] = "DELETE"
                    /\ DeletedBefore(eID[e]) /\ NoPutOf(eID[e])
                    => Responds(e, StatusNotFound)
               /\ Responds(e, StatusBadRequest) \/ Responds(e, StatusNotFound)
                    => users' = users
               /\ Responds(e, StatusNoContent)
                    => users' = MapDelete(users, PathValue(ePath[e]))
               /\ Responds(e, StatusOK)
                    => /\ DOMAIN users' = DOMAIN users \cup {PathValue(ePath[e])}
                       /\ \A k \in DOMAIN users \ {PathValue(ePath[e])} :
                            users'[k] = users[k]
          /\ users' # users
               => \E e \in Edits : Responds(e, StatusOK) \/ Responds(e, StatusNoContent)]_vars

\* DELETE /users/1 was answered 204 and removed user 1 only; the PUT of the
\* same id that came after it was answered 404
C13_Witness ==
    /\ \E d, p \in Edits :
         /\ eMethod[d] = "DELETE" /\ ePath[d] = <<"1">> /\ eStatus[d] = StatusNoContent
         /\ eMethod[p] = "PUT" /\ ePath[p] = <<"1">> /\ eBody[p] = "valid"
         /\ eStatus[p] = StatusNotFound
    /\ users = [id \in {2} |-> Seed]
    /\ nextUserID = 3

\* C13 as stated: every PUT or DELETE whose id is an integer that is not a
\* key of users is answered 404 (7 and -1 are never keys here).
C13_NotFoundWheneverAbsent ==
    \A e \in Edits :
        /\ ePc[e] = "done"
        /\ ePath[e] \in IntegerTexts
        /\ PathValue(ePath[e]) \notin SeededIDs
        => eStatus[e] = StatusNotFound

----------------------------------------------------------------------------
(* acquireLock and releaseLock over Redis, docs/golang-database.md.         *)
(* SET NX and the Lua script of releaseLock are each executed atomically by *)
(* the server; a key set with an expiration is removed by the server once   *)
(* that time has passed, whatever its setter is doing then.  lockValue is   *)
(* "lock:" followed by the caller's wall clock, which the callers, being    *)
(* different processes, each read for themselves.                           *)

MaxLockClients == 2
MaxStamp == 2          \* the clock readings time.Now().UnixNano() may give

LockClients == 1..MaxLockClients
LockKeys == {"lock:a", "lock:b"}
Stamps == 1..MaxStamp

NoKey == [value |-> 0, expires |-> FALSE, setter |-> 0]

\* DEL whatever the key holds
ReleaseDeletesAny(stored, lockValue) == stored # 0

\* if redis.call("GET", KEYS[1]) == ARGV[1]
ReleaseDeletes(stored, lockValue) == stored = lockValue

LkInit ==
    /\ lkStore = [k \in LockKeys |-> NoKey]
    /\ lkHeld = [c \in LockClients |-> [k \in LockKeys |-> 0]]
    /\ lkExpired = [k \in LockKeys |-> FALSE]
    /\ lkRes = [op |-> "none"]
    /\ lkExpiration \in {0, 1}

\* acquireLock(rdb, lockKey, expiration) by a client that holds no lockValue
\* for the key: SET lockKey lockValue NX with the expiration
AcquireLock(c, k) ==
    /\ lkHeld[c][k] = 0
    /\ \E now \in Stamps :
         IF lkStore[k] = NoKey
         THEN /\ lkStore' = [lkStore EXCEPT ![k] =
                    [value |-> now, expires |-> lkExpiration # 0, setter |-> c]]
              /\ lkHeld' = [lkHeld EXCEPT ![c][k] = now]
              /\ lkRes' = [op |-> "acquire", ok |-> TRUE]
         ELSE /\ lkRes' = [op |-> "acquire", ok |-> FALSE]
              /\ UNCHANGED <<lkStore, lkHeld>>
    /\ UNCHANGED <<lkExpired, lkExpiration>>
    /\ UNCHANGED notLk

\* releaseLock(rdb, lockKey, lockValue) by the client that got lockValue
ReleaseLock(c, k) ==
    /\ lkHeld[c][k] # 0
    /\ IF ReleaseDeletes(lkStore[k].value, lkHeld[c][k])
       THEN lkStore' = [lkStore EXCEPT ![k] = NoKey]
       ELSE UNCHANGED lkStore
    /\ lkHeld' = [lkHeld EXCEPT ![c][k] = 0]
    /\ lkRes' = [op |-> "release", ok |-> TRUE]
    /\ UNCHANGED <<lkExpired, lkExpiration>>
    /\ UNCHANGED notLk

\* the server removes a key whose expiration has passed
KeyExpires(k) ==
    /\ lkStore[k] # NoKey
    /\ lkStore[k].expires
    /\ lkStore' = [lkStore EXCEPT ![k] = NoKey]
    /\ lkExpired' = [lkExpired EXCEPT ![k] = TRUE]
    /\ lkRes' = [op |-> "expire"]
    /\ UNCHANGED <<lkHeld, lkExpiration>>
    /\ UNCHANGED notLk

LkNext ==
    \/ \E c \in LockClients, k \in LockKeys : AcquireLock(c, k)
    \/ \E c \in LockClients, k \in LockKeys : ReleaseLock(c, k)
    \/ \E k \in LockKeys : KeyExpires(k)

\* the clients that believe they hold the lock of k: acquireLock gave them a
\* lockValue and they have not called releaseLock yet
Believers(k) == {c \in LockClients : lkHeld[c][k] # 0}

----------------------------------------------------------------------------
(* DatabaseManager.GetOrdersByUser, 11-database.go.                         *)
(* The query reads one snapshot of orders and order_items.  Its rows come   *)
(* newest order first; rows of orders created in the same second come in    *)
(* an order the database chooses.  The orders are gathered in a Go map and  *)
(* the result is built by ranging over that map, whose iteration order the  *)
(* language leaves unspecified.                                             *)

MaxOrders == 2         \* rows of orders in the snapshot
MaxCreatedAt == 2      \* the seconds CURRENT_TIMESTAMP gave
UserIDs == {1, 2}
ItemCounts == {0, 2}   \* items per order

\* the tables CreateOrder and ProcessOrder can have left: ids count up, and
\* created_at never goes back as the ids grow
OrderTables ==
    UNION {{t \in [1..n -> [id : 1..n, user_id : UserIDs, created_at : 1..MaxCreatedAt]] :
              /\ \A i \in 1..n : t[i].id = i
              /\ \A i \in 1..(n - 1) : t[i].created_at <= t[i + 1].created_at}
           : n \in 0..MaxOrders}

\* order_items rows of an orders table in which order i has counts[i] items
RECURSIVE ItemRows(_, _)
ItemRows(counts, n) ==
    IF n = 0 THEN <<>>
    ELSE LET before == ItemRows(counts, n - 1)
         IN  before \o [k \in 1..counts[n] |-> [id |-> Len(before) + k, order_id |-> n]]

NullItem == 0

\* FROM orders o LEFT JOIN order_items oi ON o.id = oi.order_id WHERE o.user_id = ?
LeftJoin(ords, items, userID) ==
    LET mine == {i \in 1..Len(ords) : ords[i].user_id = userID}
        of(i) == {k \in 1..Len(items) : items[k].order_id = ords[i].id}
    IN  UNION {IF of(i) = {}
               THEN {[order |-> ords[i], item |-> NullItem]}
               ELSE {[order |-> ords[i], item |-> items[k].id] : k \in of(i)}
               : i \in mine}

\* ORDER BY o.created_at DESC: the rows that may come next
NextRows(rows) ==
    {row \in rows : \A other \in rows : other.order.created_at <= row.order.created_at}

\* for _, order := range orders: the keys that may come next are all the
\* keys not visited yet
RangeNext(left) == left

GobInit ==
    /\ gobOrders \in OrderTables
    /\ \E counts \in [1..Len(gobOrders) -> ItemCounts] :
           gobItems = ItemRows(counts, Len(gobOrders))
    /\ gobUser \in UserIDs
    /\ gobPc = "query"
    /\ gobRows = {}
    /\ gobMap = <<>>
    /\ gobResult = <<>>

\* rows, err := dm.db.Query(query, userID)
GobQuery ==
    /\ gobPc = "query"
    /\ gobRows' = LeftJoin(gobOrders, gobItems, gobUser)
    /\ gobPc' = "rows"
    /\ UNCHANGED <<gobOrders, gobItems, gobUser, gobMap, gobResult>>
    /\ UNCHANGED notGob

\* for rows.Next() { rows.Scan(...); add the order to the map if it is not
\* there; append the item if itemID.Valid }
GobScan ==
    /\ gobPc = "rows"
    /\ IF gobRows = {}
       THEN /\ gobPc' = "range"
            /\ UNCHANGED <<gobRows, gobMap>>
       ELSE \E row \in NextRows(gobRows) :
              LET id == row.order.id
                  old == IF id \in DOMAIN gobMap THEN gobMap[id]
                         ELSE [order |-> row.order, Items |-> <<>>]
                  new == IF row.item # NullItem
                         THEN [old EXCEPT !.Items = Append(@, row.item)]
                         ELSE old
              IN  /\ gobMap' = [k \in DOMAIN gobMap \cup {id} |->
                                   IF k = id THEN new ELSE gobMap[k]]
                  /\ gobRows' = gobRows \ {row}
                  /\ UNCHANGED gobPc
    /\ UNCHANGED <<gobOrders, gobItems, gobUser, gobResult>>
    /\ UNCHANGED notGob

\* for _, order := range orders { result = append(result, *order) }; return
GobRange ==
    /\ gobPc = "range"
    /\ LET left == DOMAIN gobMap \ {gobResult[i].order.id : i \in 1..Len(gobResult)}
       IN  IF left = {}
           THEN /\ gobPc' = "done"
                /\ UNCHANGED gobResult
           ELSE /\ \E id \in RangeNext(left) :
                     gobResult' = Append(gobResult, gobMap[id])
                /\ UNCHANGED gobPc
    /\ UNCHANGED <<gobOrders, gobItems, gobUser, gobRows, gobMap>>
    /\ UNCHANGED notGob

GobNext ==
    \/ GobQuery
    \/ GobScan
    \/ GobRange

\* the ids of the user's orders, and the item ids of an order, in the snapshot
OrdersOfUser == {gobOrders[i].id : i \in {i \in 1..Len(gobOrders) : gobOrders[i].user_id = gobUser}}
ItemsOfOrder(id) == {gobItems[k].id : k \in {k \in 1..Len(gobItems) : gobItems[k].order_id = id}}

\* the result holds every order of the user exactly once, each with all of
\* its order items and no others (an empty list when it has none)
GobEveryOrderWithItems ==
    gobPc = "done" =>
        /\ {gobResult[i].order.id : i \in 1..Len(gobResult)} = OrdersOfUser
        /\ Len(gobResult) = Cardinality(OrdersOfUser)
        /\ \A i \in 1..Len(gobResult) :
             /\ gobResult[i].order = gobOrders[gobResult[i].order.id]
             /\ Range(gobResult[i].Items) = ItemsOfOrder(gobResult[i].order.id)
             /\ Len(gobResult[i].Items) = Cardinality(ItemsOfOrder(gobResult[i].order.id))

\* C15: GetOrdersByUser(userID) returns every order of that user exactly
\* once, each with all of its order items, and the returned slice is ordered
\* by creation time descending.
C15_OrdersNewestFirst ==
    /\ GobEveryOrderWithItems
    /\ gobPc = "done" =>
         \A i, j \in 1..Len(gobResult) :
            i < j => gobResult[i].order.created_at >= gobResult[j].order.created_at

----------------------------------------------------------------------------
(* Cache (3-control-flow.go; Cache[K, V] of 8-error-handling.go has the     *)
(* same bodies): a map behind a sync.RWMutex.  Set and Delete hold the      *)
(* write lock, Get the read lock, each from its first statement to its      *)
(* deferred unlock.                                                         *)

MaxCacheCallers == 2   \* goroutines calling the cache
MaxCacheOps == 3       \* calls made in all

CacheCallers == 1..MaxCacheCallers
CacheKeys == {"key0", "key1"}
CacheValues == {1, 2}
NoValue == 0           \* the nil value Get returns with exists = false

\* a write lock that does not wait for the readers
CanLockOverReaders(writer, readers) == writer = 0

\* c.mu.Lock() returns when no goroutine holds the lock in either mode
CanLockRW(writer, readers) == writer = 0 /\ readers = {}

\* c.mu.RLock() returns when no goroutine holds the write lock
CanRLock(writer, readers) == writer = 0

NoOp == [op |-> "none", key |-> "", value |-> NoValue]

CacheInit ==
    /\ caData = [k \in {} |-> NoValue]
    /\ caWriter = 0
    /\ caReaders = {}
    /\ caPc = [c \in CacheCallers |-> "idle"]
    /\ caOp = [c \in CacheCallers |-> NoOp]
    /\ caRes = [c \in CacheCallers |-> [val |-> NoValue, exists |-> FALSE]]
    /\ caLog = <<>>
    /\ caOps = 0

\* a goroutine calls cache.Set(key, value), cache.Get(key) or cache.Delete(key)
CacheCall(c) ==
    /\ caPc[c] = "idle"
    /\ caOps < MaxCacheOps
    /\ \E op \in {"Set", "Get", "Delete"}, k \in CacheKeys, v \in CacheValues :
         /\ op # "Set" => v = 1
         /\ caOp' = [caOp EXCEPT ![c] =
                        [op |-> op, key |-> k, value |-> IF op = "Set" THEN v ELSE NoValue]]
    /\ caPc' = [caPc EXCEPT ![c] = "lock"]
    /\ caOps' = caOps + 1
    /\ UNCHANGED <<caData, caWriter, caReaders, caRes, caLog>>
    /\ UNCHANGED notCa

\* c.mu.Lock() in Set and Delete, c.mu.RLock() in Get
CacheLock(c) ==
    /\ caPc[c] = "lock"
    /\ IF caOp[c].op = "Get"
       THEN /\ CanRLock(caWriter, caReaders)
            /\ caReaders' = caReaders \cup {c}
            /\ UNCHANGED caWriter
       ELSE /\ CanLockRW(caWriter, caReaders)
            /\ caWriter' = c
            /\ UNCHANGED caReaders
    /\ caPc' = [caPc EXCEPT ![c] = "body"]
    /\ UNCHANGED <<caData, caOp, caRes, caLog, caOps>>
    /\ UNCHANGED notCa

\* c.data[key] = value
CacheSet(c) ==
    /\ caPc[c] = "body"
    /\ caOp[c].op = "Set"
    /\ caData' = [k \in DOMAIN caData \cup {caOp[c].key} |->
                     IF k = caOp[c].key THEN caOp[c].value ELSE caData[k]]
    /\ caLog' = Append(caLog, caOp[c])
    /\ caPc' = [caPc EXCEPT ![c] = "unlock"]
    /\ UNCHANGED <<caWriter, caReaders, caOp, caRes, caOps>>
    /\ UNCHANGED notCa

\* val, exists := c.data[key]
CacheGet(c) ==
    /\ caPc[c] = "body"
    /\ caOp[c].op = "Get"
    /\ caRes' = [caRes EXCEPT ![c] =
                    IF caOp[c].key \in DOMAIN caData
                    THEN [val |-> caData[caOp[c].key], exists |-> TRUE]
                    ELSE [val |-> NoValue, exists |-> FALSE]]
    /\ caPc' = [caPc EXCEPT ![c] = "unlock"]
    /\ UNCHANGED <<caData, caWriter, caReaders, caOp, caLog, caOps>>
    /\ UNCHANGED notCa

\* delete(c.data, key)
CacheDelete(c) ==
    /\ caPc[c] = "body"
    /\ caOp[c].op = "Delete"
    /\ caData' = [k \in DOMAIN caData \ {caOp[c].key} |-> caData[k]]
    /\ caLog' = Append(caLog, caOp[c])
    /\ caPc' = [caPc EXCEPT ![c] = "unlock"]
    /\ UNCHANGED <<caWriter, caReaders, caOp, caRes, caOps>>
    /\ UNCHANGED notCa

\* the deferred c.mu.Unlock() or c.mu.RUnlock(), and the return, which ends
\* the call and its local variables
CacheUnlock(c) ==
    /\ caPc[c] = "unlock"
    /\ IF caOp[c].op = "Get"
       THEN /\ caReaders' = caReaders \ {c}
            /\ UNCHANGED caWriter
       ELSE /\ caWriter' = 0
            /\ UNCHANGED caReaders
    /\ caPc' = [caPc EXCEPT ![c] = "idle"]
    /\ caOp' = [caOp EXCEPT ![c] = NoOp]
    /\ caRes' = [caRes EXCEPT ![c] = [val |-> NoValue, exists |-> FALSE]]
    /\ UNCHANGED <<caData, caLog, caOps>>
    /\ UNCHANGED notCa

CacheNext ==
    \/ \E c \in CacheCallers : CacheCall(c)
    \/ \E c \in CacheCallers : CacheLock(c)
    \/ \E c \in CacheCallers : CacheSet(c)
    \/ \E c \in CacheCallers : CacheGet(c)
    \/ \E c \in CacheCallers : CacheDelete(c)
    \/ \E c \in CacheCallers : CacheUnlock(c)

\* what Get(k) is to return after the writes of log: the value of the last
\* Set(k, .) if no Delete(k) follows it
RECURSIVE Expected(_, _)
Expected(log, k) ==
    IF log = <<>> THEN [val |-> NoValue, exists |-> FALSE]
    ELSE LET last == log[Len(log)]
         IN  IF last.key # k THEN Expected(SubSeq(log, 1, Len(log) - 1), k)
             ELSE IF last.op = "Set" THEN [val |-> last.value, exists |-> TRUE]
             ELSE [val |-> NoValue, exists |-> FALSE]

Lookup(data, k) ==
    IF k \in DOMAIN data THEN [val |-> data[k], exists |-> TRUE]
    ELSE [val |-> NoValue, exists |-> FALSE]

InsideCache(c) == caPc[c] \in {"body", "unlock"}

\* C16: a Get(k) returns the value of the most recent Set(k, .) that no
\* Delete(k) follows, and exists = false if there is none; a Set or Delete of
\* one key leaves what Get returns for every other key; a writer is never
\* inside the cache together with another writer or a reader, whatever the
\* interleaving of the callers.
C16_CacheLastWrite ==
    /\ [](/\ \A k \in CacheKeys : Lookup(caData, k) = Expected(caLog, k)
          /\ \A c \in CacheCallers :
               caOp[c].op = "Get" /\ caPc[c] = "unlock"
                  => caRes[c] = Expected(caLog, caOp[c].key)
          /\ \A c1, c2 \in CacheCallers :
               c1 # c2 /\ InsideCache(c1) /\ InsideCache(c2)
                  => caOp[c1].op = "Get" /\ caOp[c2].op = "Get")
    /\ [][\A c \in CacheCallers :
            CacheSet(c) \/ CacheDelete(c)
               => \A k \in CacheKeys \ {caOp[c].key} :
                     Lookup(caData', k) = Lookup(caData, k)]_vars

\* key0 was set to 2 and then deleted; a Get of key0, still inside the
\* cache, has found nothing
C16_Witness ==
    /\ caLog = <<[op |-> "Set", key |-> "key0", value |-> 2],
                 [op |-> "Delete", key |-> "key0", value |-> NoValue]>>
    /\ \E c \in CacheCallers :
         /\ caOp[c] = [op |-> "Get", key |-> "key0", value |-> NoValue]
         /\ caPc[c] = "unlock"
         /\ caRes[c] = [val |-> NoValue, exists |-> FALSE]
    /\ caData = [k \in {} |-> NoValue]

----------------------------------------------------------------------------
(* ReverseString, 3-control-flow.go.  A Go string is a sequence of bytes;   *)
(* []rune(s) decodes it as UTF-8, giving U+FFFD for every byte that is not  *)
(* part of a valid encoding, and string(runes) encodes the runes as UTF-8.  *)

MaxStrLen == 3         \* bytes in the strings tried

\* 'a', 'b', and the bytes 0xC3 0xA9 of U+00E9
StrBytes == {97, 98, 195, 169}

RuneError == 65533     \* U+FFFD

IsCont(b) == b >= 128 /\ b <= 191

\* every byte taken as a rune of its own
DecodeRuneBytewise(bs) == [rune |-> bs[1], size |-> 1]

\* the rune at the head of a non-empty byte sequence and the bytes it takes
DecodeRune(bs) ==
    LET b1 == bs[1] IN
    IF b1 < 128 THEN [rune |-> b1, size |-> 1]
    ELSE IF b1 >= 194 /\ b1 <= 223 /\ Len(bs) >= 2 /\ IsCont(bs[2])
    THEN [rune |-> (b1 % 32) * 64 + (bs[2] % 64), size |-> 2]
    ELSE IF /\ b1 >= 224 /\ b1 <= 239 /\ Len(bs) >= 3 /\ IsCont(bs[2]) /\ IsCont(bs[3])
            /\ b1 = 224 => bs[2] >= 160
            /\ b1 = 237 => bs[2] <= 159
    THEN [rune |-> (b1 % 16) * 4096 + (bs[2] % 64) * 64 + (bs[3] % 64), size |-> 3]
    ELSE [rune |-> RuneError, size |-> 1]

\* []rune(s)
RECURSIVE Runes(_)
Runes(bs) ==
    IF bs = <<>> THEN <<>>
    ELSE LET d == DecodeRune(bs)
         IN  <<d.rune>> \o Runes(SubSeq(bs, d.size + 1, Len(bs)))

\* the UTF-8 bytes of one rune
EncodeRune(r) ==
    IF r < 128 THEN <<r>>
    ELSE IF r < 2048 THEN <<192 + (r \div 64), 128 + (r % 64)>>
    ELSE <<224 + (r \div 4096), 128 + ((r \div 64) % 64), 128 + (r % 64)>>

\* string(runes)
RECURSIVE StringOf(_)
StringOf(rs) ==
    IF rs = <<>> THEN <<>> ELSE EncodeRune(rs[1]) \o StringOf(Tail(rs))

\* for i, j := 0, len(runes)-1; i < j; i, j = i+1, j-1 { swap }
RECURSIVE SwapLoop(_, _, _)
SwapLoop(runes, i, j) ==
    IF i < j
    THEN SwapLoop([runes EXCEPT ![i] = runes[j], ![j] = runes[i]], i + 1, j - 1)
    ELSE runes

ReverseString(s) == StringOf(SwapLoop(Runes(s), 1, Len(Runes(s))))

StringsUpTo(n) == UNION {[1..k -> StrBytes] : k \in 0..n}

RvInit ==
    /\ rvS \in StringsUpTo(MaxStrLen)
    /\ rvPc = "start"
    /\ rvOnce = <<>>
    /\ rvTwice = <<>>

\* reversed := ReverseString(str)
RvReverse ==
    /\ rvPc = "start"
    /\ rvOnce' = ReverseString(rvS)
    /\ rvPc' = "once"
    /\ UNCHANGED <<rvS, rvTwice>>
    /\ UNCHANGED notRv

\* doubleReversed := ReverseString(reversed)
RvReverseAgain ==
    /\ rvPc = "once"
    /\ rvTwice' = ReverseString(rvOnce)
    /\ rvPc' = "twice"
    /\ UNCHANGED <<rvS, rvOnce>>
    /\ UNCHANGED notRv

RvNext ==
    \/ RvReverse
    \/ RvReverseAgain

\* well-formed UTF-8, by the table of the Unicode standard
RECURSIVE ValidUTF8(_)
ValidUTF8(bs) ==
    IF bs = <<>> THEN TRUE
    ELSE IF bs[1] < 128 THEN ValidUTF8(Tail(bs))
    ELSE IF bs[1] >= 194 /\ bs[1] <= 223
    THEN Len(bs) >= 2 /\ IsCont(bs[2]) /\ ValidUTF8(SubSeq(bs, 3, Len(bs)))
    ELSE IF bs[1] >= 224 /\ bs[1] <= 239
    THEN /\ Len(bs) >= 3 /\ IsCont(bs[2]) /\ IsCont(bs[3])
         /\ bs[1] = 224 => bs[2] >= 160
         /\ bs[1] = 237 => bs[2] <= 159
         /\ ValidUTF8(SubSeq(bs, 4, Len(bs)))
    ELSE FALSE

\* the characters of a well-formed string, each as its bytes
RECURSIVE Chars(_)
Chars(bs) ==
    IF bs = <<>> THEN <<>>
    ELSE LET n == IF bs[1] < 128 THEN 1 ELSE IF bs[1] <= 223 THEN 2 ELSE 3
         IN  <<SubSeq(bs, 1, n)>> \o Chars(SubSeq(bs, n + 1, Len(bs)))

RECURSIVE Concat(_)
Concat(ss) == IF ss = <<>> THEN <<>> ELSE ss[1] \o Concat(Tail(ss))

Reversed(seq) == [i \in 1..Len(seq) |-> seq[Len(seq) + 1 - i]]

\* C17 (amended): for every string s that is well-formed UTF-8,
\* ReverseString(s) is the characters of s in reverse order, so
\* ReverseString(ReverseString(s)) = s, and the empty string, a string of one
\* character and a palindrome are returned unchanged; whatever s is, the
\* result is well-formed UTF-8 and reversing it twice gives it back.
C17_ReverseValidUTF8 ==
    /\ rvPc # "start" =>
         /\ ValidUTF8(rvOnce)
         /\ ValidUTF8(rvS) =>
              /\ rvOnce = Concat(Reversed(Chars(rvS)))
              /\ Len(Chars(rvS)) <= 1 => rvOnce = rvS
              /\ Chars(rvS) = Reversed(Chars(rvS)) => rvOnce = rvS
    /\ rvPc = "twice" =>
         /\ ValidUTF8(rvS) => rvTwice = rvS
         /\ ReverseString(rvTwice) = rvOnce

\* "a" followed by U+00E9 was reversed to U+00E9 followed by "a", and back
C17_Witness ==
    /\ rvPc = "twice"
    /\ rvS = <<97, 195, 169>>
    /\ rvOnce = <<195, 169, 97>>
    /\ rvTwice = rvS

\* C17 as stated: ReverseString(ReverseString(s)) = s for every string s, and
\* a string of at most one character is returned unchanged.
C17_ReverseInvolution ==
    /\ rvPc = "twice" => rvTwice = rvS
    /\ rvPc # "start" /\ Len(Runes(rvS)) <= 1 => rvOnce = rvS

----------------------------------------------------------------------------
(* InMemoryServiceRegistry called from several goroutines at once,          *)
(* 8-error-handling.go.  Register and Deregister hold r.mu for writing,     *)
(* Discover and HealthCheck for reading, each from its first statement to   *)
(* its deferred unlock.  Register's statement reads the slice of the name,  *)
(* appends to it and stores the result in the map.                          *)

MaxRegCallers == 2     \* goroutines calling the registry
MaxConcCalls == 3      \* calls made in all

RegCallers == 1..MaxRegCallers

\* a write lock that waits for nobody
RegCanLockAlways(writer, readers) == TRUE

\* r.mu.Lock() returns when no goroutine holds r.mu in either mode
RegCanLock(writer, readers) == writer = 0 /\ readers = {}

\* r.mu.RLock() returns when no goroutine holds r.mu for writing
RegCanRLock(writer, readers) == writer = 0

\* r.services[serviceName], a missing name reading as the nil slice
SliceOf(m, name) == IF name \in DOMAIN m THEN m[name] ELSE <<>>

\* r.services[serviceName] = slice
StoreSlice(m, name, slice) ==
    [n \in DOMAIN m \cup {name} |-> IF n = name THEN slice ELSE m[n]]

\* the address a caller registers: its own
AddrOf(c) == IF c % 2 = 1 THEN "localhost:8080" ELSE "localhost:8081"

IdleRegCall == [op |-> "none", name |-> "", addr |-> ""]

RcInit ==
    /\ rcWriter = 0
    /\ rcReaders = {}
    /\ rcPc = [c \in RegCallers |-> "idle"]
    /\ rcOp = [c \in RegCallers |-> IdleRegCall]
    /\ rcSlice = [c \in RegCallers |-> <<>>]
    /\ rcFrom = [c \in RegCallers |-> 0]
    /\ rcRes = [c \in RegCallers |-> NoRes]
    /\ rcCalls = 0

\* a goroutine calls Register, Deregister, Discover or HealthCheck
RcCall(c) ==
    /\ rcPc[c] = "idle"
    /\ rcCalls < MaxConcCalls
    /\ \E op \in {"Register", "Deregister", "Discover", "HealthCheck"}, n \in Names :
         rcOp' = [rcOp EXCEPT ![c] =
                    [op |-> op, name |-> n,
                     addr |-> IF op = "Register" THEN AddrOf(c) ELSE ""]]
    /\ rcPc' = [rcPc EXCEPT ![c] = "lock"]
    /\ rcFrom' = [rcFrom EXCEPT ![c] = Len(regLog)]
    /\ rcCalls' = rcCalls + 1
    /\ UNCHANGED <<services, regLog, rcWriter, rcReaders, rcSlice, rcRes>>
    /\ UNCHANGED notRc

\* r.mu.Lock() in Register and Deregister, r.mu.RLock() in Discover and HealthCheck
RcLock(c) ==
    /\ rcPc[c] = "lock"
    /\ IF rcOp[c].op \in {"Register", "Deregister"}
       THEN /\ RegCanLock(rcWriter, rcReaders)
            /\ rcWriter' = c
            /\ UNCHANGED rcReaders
       ELSE /\ RegCanRLock(rcWriter, rcReaders)
            /\ rcReaders' = rcReaders \cup {c}
            /\ UNCHANGED rcWriter
    /\ rcPc' = [rcPc EXCEPT ![c] = IF rcOp[c].op = "Register" THEN "load" ELSE "body"]
    /\ UNCHANGED <<services, regLog, rcOp, rcSlice, rcFrom, rcRes, rcCalls>>
    /\ UNCHANGED notRc

\* Register: append(r.services[serviceName], address) reads the slice ...
RcRegisterLoad(c) ==
    /\ rcPc[c] = "load"
    /\ rcSlice' = [rcSlice EXCEPT ![c] = SliceOf(services, rcOp[c].name)]
    /\ rcPc' = [rcPc EXCEPT ![c] = "store"]
    /\ UNCHANGED <<services, regLog, rcWriter, rcReaders, rcOp, rcFrom, rcRes, rcCalls>>
    /\ UNCHANGED notRc

\* ... and r.services[serviceName] = stores the appended slice; return nil
RcRegisterStore(c) ==
    /\ rcPc[c] = "store"
    /\ services' = StoreSlice(services, rcOp[c].name, Append(rcSlice[c], rcOp[c].addr))
    /\ regLog' = Append(regLog, [op |-> "Register", name |-> rcOp[c].name,
                                 addr |-> rcOp[c].addr])
    /\ rcRes' = [rcRes EXCEPT ![c] = [op |-> "Register", err |-> NoErr]]
    /\ rcPc' = [rcPc EXCEPT ![c] = "unlock"]
    /\ UNCHANGED <<rcWriter, rcReaders, rcOp, rcSlice, rcFrom, rcCalls>>
    /\ UNCHANGED notRc

\* Deregister: delete(r.services, serviceName); return nil
RcDeregister(c) ==
    /\ rcPc[c] = "body"
    /\ rcOp[c].op = "Deregister"
    /\ services' = DeregisterMap(services, rcOp[c].name)
    /\ regLog' = Append(regLog, [op |-> "Deregister", name |-> rcOp[c].name])
    /\ rcRes' = [rcRes EXCEPT ![c] = [op |-> "Deregister", err |-> NoErr]]
    /\ rcPc' = [rcPc EXCEPT ![c] = "unlock"]
    /\ UNCHANGED <<rcWriter, rcReaders, rcOp, rcSlice, rcFrom, rcCalls>>
    /\ UNCHANGED notRc

\* Discover: the slice of the name and nil, or nil and the error
RcDiscover(c) ==
    /\ rcPc[c] = "body"
    /\ rcOp[c].op = "Discover"
    /\ rcRes' = [rcRes EXCEPT ![c] =
                    [op |-> "Discover",
                     addrs |-> Discover(services, rcOp[c].name).addrs,
                     err |-> Discover(services, rcOp[c].name).err]]
    /\ rcPc' = [rcPc EXCEPT ![c] = "unlock"]
    /\ UNCHANGED <<services, regLog, rcWriter, rcReaders, rcOp, rcSlice, rcFrom, rcCalls>>
    /\ UNCHANGED notRc

\* HealthCheck: whether the name is a key
RcHealthCheck(c) ==
    /\ rcPc[c] = "body"
    /\ rcOp[c].op = "HealthCheck"
    /\ rcRes' = [rcRes EXCEPT ![c] =
                    [op |-> "HealthCheck", ok |-> HealthCheck(services, rcOp[c].name)]]
    /\ rcPc' = [rcPc EXCEPT ![c] = "unlock"]
    /\ UNCHANGED <<services, regLog, rcWriter, rcReaders, rcOp, rcSlice, rcFrom, rcCalls>>
    /\ UNCHANGED notRc

\* the deferred r.mu.Unlock() or r.mu.RUnlock(), and the return, which ends
\* the call and its local variables
RcUnlock(c) ==
    /\ rcPc[c] = "unlock"
    /\ IF rcOp[c].op \in {"Register", "Deregister"}
       THEN /\ rcWriter' = 0
            /\ UNCHANGED rcReaders
       ELSE /\ rcReaders' = rcReaders \ {c}
            /\ UNCHANGED rcWriter
    /\ rcPc' = [rcPc EXCEPT ![c] = "idle"]
    /\ rcOp' = [rcOp EXCEPT ![c] = IdleRegCall]
    /\ rcSlice' = [rcSlice EXCEPT ![c] = <<>>]
    /\ rcFrom' = [rcFrom EXCEPT ![c] = 0]
    /\ rcRes' = [rcRes EXCEPT ![c] = NoRes]
    /\ UNCHANGED <<services, regLog, rcCalls>>
    /\ UNCHANGED notRc

RcNext ==
    \/ \E c \in RegCallers : RcCall(c)
    \/ \E c \in RegCallers : RcLock(c)
    \/ \E c \in RegCallers : RcRegisterLoad(c)
    \/ \E c \in RegCallers : RcRegisterStore(c)
    \/ \E c \in RegCallers : RcDeregister(c)
    \/ \E c \in RegCallers : RcDiscover(c)
    \/ \E c \in RegCallers : RcHealthCheck(c)
    \/ \E c \in RegCallers : RcUnlock(c)

InsideRegistry(c) == rcPc[c] \in {"load", "store", "body", "unlock"}

\* what Discover(name) and HealthCheck(name) return when the registry holds
\* the effect of the first i writes of the history
DiscoverAt(i, name) ==
    LET l == SubSeq(regLog, 1, i) IN
    IF NoEntry(l, name)
    THEN [addrs |-> <<>>, err |-> ErrNotFound(name)]
    ELSE [addrs |-> RegisteredSince(l, name), err |-> NoErr]

HealthAt(i, name) == ~NoEntry(SubSeq(regLog, 1, i), name)

\* number of Register(name, .) calls that have stored, none of them
\* followed or preceded by a Deregister(name)
RegistersOnly(name) ==
    IF \E i \in 1..Len(regLog) : regLog[i].op = "Deregister" /\ regLog[i].name = name
    THEN -1
    ELSE Cardinality({i \in 1..Len(regLog) : regLog[i].name = name})

\* C19: concurrent Register, Deregister, Discover and HealthCheck calls on
\* one registry are linearizable: a writer is never inside together with
\* another writer or a reader; the map is the effect of the writes in the
\* order they held the lock, so k Register(name, .) calls and no Deregister
\* leave exactly k addresses under name; every Discover and HealthCheck
\* result is what the registry held at some instant between the call and its
\* return.
C19_RegistryLinearizable ==
    /\ \A c1, c2 \in RegCallers :
         c1 # c2 /\ InsideRegistry(c1) /\ InsideRegistry(c2)
            => /\ rcOp[c1].op \in {"Discover", "HealthCheck"}
               /\ rcOp[c2].op \in {"Discover", "HealthCheck"}
    /\ \A n \in Names :
         /\ Discover(services, n) = DiscoverAt(Len(regLog), n)
         /\ RegistersOnly(n) >= 0 => Len(SliceOf(services, n)) = RegistersOnly(n)
    /\ \A c \in RegCallers :
         rcPc[c] = "unlock" =>
            /\ rcOp[c].op = "Discover" =>
                 \E i \in rcFrom[c]..Len(regLog) :
                    /\ rcRes[c].addrs = DiscoverAt(i, rcOp[c].name).addrs
                    /\ rcRes[c].err = DiscoverAt(i, rcOp[c].name).err
            /\ rcOp[c].op = "HealthCheck" =>
                 \E i \in rcFrom[c]..Len(regLog) :
                    rcRes[c].ok = HealthAt(i, rcOp[c].name)

\* two Register calls of one name that overlapped have both stored, the name
\* holding both addresses, and a Discover called before the second stored
\* returns the two of them
C19_Witness ==
    /\ Len(regLog) = 2
    /\ regLog[1].op = "Register" /\ regLog[2].op = "Register"
    /\ regLog[1].name = "user-service" /\ regLog[2].name = "user-service"
    /\ Len(SliceOf(services, "user-service")) = 2
    /\ \E c \in RegCallers :
         /\ rcOp[c].op = "Discover" /\ rcOp[c].name = "user-service"
         /\ rcPc[c] = "unlock"
         /\ rcFrom[c] = 1
         /\ Len(rcRes[c].addrs) = 2

----------------------------------------------------------------------------
(* fanIn of docs/golang-concurrency.md with its two producers and main.     *)
(* ch1, ch2 and mergedCh are unbuffered: a send and a receive happen        *)
(* together.                                                                *)

NumValues == 3         \* the 5 values each producer sends, scaled down

Inputs == {1, 2}       \* ch1 with producer A, ch2 with producer B

\* wg.Wait() returning at once
FanInWaitReturnsAlways(n) == TRUE

\* wg.Wait() returns when both forwarding goroutines have called wg.Done()
FanInWaitReturns(n) == n = 0

\* main has started the producers and called fanIn, which has done wg.Add(2)
\* and started its goroutines
FiInit ==
    /\ fiI = [p \in Inputs |-> 0]
    /\ fiClosed = [p \in Inputs |-> FALSE]
    /\ fiFPc = [p \in Inputs |-> "recv"]
    /\ fiVal = [p \in Inputs |-> 0]
    /\ fiWg = 2
    /\ fiMerged = "open"
    /\ fiCloses = 0
    /\ fiMainPc = "recv"
    /\ fiGot = <<>>
    /\ fiPanic = FALSE

\* producer: ch <- i, taken by `for val := range ch` of the forwarder
FiProduce(p) ==
    /\ ~fiPanic
    /\ fiI[p] < NumValues
    /\ fiFPc[p] = "recv"
    /\ fiVal' = [fiVal EXCEPT ![p] = fiI[p]]
    /\ fiFPc' = [fiFPc EXCEPT ![p] = "forward"]
    /\ fiI' = [fiI EXCEPT ![p] = @ + 1]
    /\ UNCHANGED <<fiClosed, fiWg, fiMerged, fiCloses, fiMainPc, fiGot, fiPanic>>
    /\ UNCHANGED notFi

\* the producer's loop is over: the deferred close(ch1) or close(ch2)
FiCloseInput(p) ==
    /\ ~fiPanic
    /\ fiI[p] = NumValues
    /\ ~fiClosed[p]
    /\ fiClosed' = [fiClosed EXCEPT ![p] = TRUE]
    /\ UNCHANGED <<fiI, fiFPc, fiVal, fiWg, fiMerged, fiCloses, fiMainPc, fiGot, fiPanic>>
    /\ UNCHANGED notFi

\* forwarder: mergedCh <- val, taken by `for val := range merged` of main; a
\* send on a closed channel panics
FiForward(p) ==
    /\ ~fiPanic
    /\ fiFPc[p] = "forward"
    /\ IF fiMerged = "closed"
       THEN /\ fiPanic' = TRUE
            /\ UNCHANGED <<fiFPc, fiGot>>
       ELSE /\ fiMainPc = "recv"
            /\ fiGot' = Append(fiGot, [from |-> p, val |-> fiVal[p]])
            /\ fiFPc' = [fiFPc EXCEPT ![p] = "recv"]
            /\ UNCHANGED fiPanic
    /\ UNCHANGED <<fiI, fiClosed, fiVal, fiWg, fiMerged, fiCloses, fiMainPc>>
    /\ UNCHANGED notFi

\* forwarder: the range over a closed input ends; the deferred wg.Done()
FiForwarderDone(p) ==
    /\ ~fiPanic
    /\ fiFPc[p] = "recv"
    /\ fiClosed[p]
    /\ fiFPc' = [fiFPc EXCEPT ![p] = "done"]
    /\ fiWg' = fiWg - 1
    /\ UNCHANGED <<fiI, fiClosed, fiVal, fiMerged, fiCloses, fiMainPc, fiGot, fiPanic>>
    /\ UNCHANGED notFi

\* the outer goroutine of fanIn: wg.Wait() returns, the deferred close(mergedCh)
FiCloseMerged ==
    /\ ~fiPanic
    /\ fiCloses = 0
    /\ FanInWaitReturns(fiWg)
    /\ fiMerged' = "closed"
    /\ fiCloses' = fiCloses + 1
    /\ UNCHANGED <<fiI, fiClosed, fiFPc, fiVal, fiWg, fiMainPc, fiGot, fiPanic>>
    /\ UNCHANGED notFi

\* main: the range over the closed merged channel ends
FiMainDone ==
    /\ ~fiPanic
    /\ fiMainPc = "recv"
    /\ fiMerged = "closed"
    /\ fiMainPc' = "done"
    /\ UNCHANGED <<fiI, fiClosed, fiFPc, fiVal, fiWg, fiMerged, fiCloses, fiGot, fiPanic>>
    /\ UNCHANGED notFi

FiNext ==
    \/ \E p \in Inputs : FiProduce(p)
    \/ \E p \in Inputs : FiCloseInput(p)
    \/ \E p \in Inputs : FiForward(p)
    \/ \E p \in Inputs : FiForwarderDone(p)
    \/ FiCloseMerged
    \/ FiMainDone

\* the Go scheduler lets every goroutine that can take a step take one
FiFairness == WF_vars(FiNext)

\* the values main received from one input, in the order it received them
GotFrom(p) ==
    LET mine == SelectSeq(fiGot, LAMBDA g : g.from = p)
    IN  [i \in 1..Len(mine) |-> mine[i].val]

FiAllFinished ==
    /\ fiMainPc = "done"
    /\ \A p \in Inputs : GotFrom(p) = [i \in 1..NumValues |-> i - 1]

\* C20: fanIn forwards every value sent on ch1 and on ch2 exactly once and
\* in the order of its input; the merged channel is closed once, and only
\* after both inputs are closed and everything sent was forwarded; nobody
\* sends on the closed channel; main's range over the merged channel ends,
\* having received all values.
C20_FanIn ==
    /\ [](/\ ~fiPanic
          /\ fiCloses <= 1
          /\ \A p \in Inputs :
               /\ Len(GotFrom(p)) = fiI[p] - (IF fiFPc[p] = "forward" THEN 1 ELSE 0)
               /\ \A i \in 1..Len(GotFrom(p)) : GotFrom(p)[i] = i - 1
          /\ fiMerged = "closed"
               => \A p \in Inputs :
                     /\ fiClosed[p]
                     /\ GotFrom(p) = [i \in 1..NumValues |-> i - 1]
          /\ fiMainPc = "done" => Len(fiGot) = 2 * NumValues)
    /\ <>[]FiAllFinished

\* main is done and received everything, the values of the two inputs
\* interleaved
C20_Witness ==
    /\ FiAllFinished
    /\ Len(fiGot) = 2 * NumValues
    /\ fiGot[1].from = 2
    /\ fiGot[2].from = 1
    /\ fiGot[2 * NumValues].from = 2

----------------------------------------------------------------------------
(* main of 11-database.go from the call of ProcessOrder to its end.         *)
(* ecommerce.db is a file: a product main tried to create may be missing    *)
(* (CreateProduct failed and main went on), orders of an earlier run may    *)
(* be present, and every database operation may fail.                       *)

MaxMainProducts == 3   \* product ids 1..3 of the 4 products main creates
MaxPriorOrders == 1    \* orders already in ecommerce.db

MnProductIDs == 1..MaxMainProducts

\* orderItems of main: products 1 and 3
MnOrderItems == <<1, 3>>

\* the operation of ProcessOrder that fails, if any
PoFaults == {"none", "begin", "price", "insert", "lastid", "item", "commit"}

\* a database operation of GetOrder or GetProductStats works or fails
DbFaults == {"none", "fails"}

\* a nil *Order
NilOrder == [isNil |-> TRUE, ID |-> 0]

OrderPtr(id) == [isNil |-> FALSE, ID |-> id]

\* what ProcessOrder returns and the number of orders it leaves in the table
ProcessOrderOf(prods, nOrders, items, fault) ==
    IF fault = "begin"
    THEN [order |-> NilOrder, err |-> "begin", orders |-> nOrders]
    ELSE IF fault = "price" \/ \E i \in 1..Len(items) : items[i] \notin prods
    THEN [order |-> NilOrder, err |-> "price", orders |-> nOrders]
    ELSE IF fault \in {"insert", "lastid", "item", "commit"}
    THEN [order |-> NilOrder, err |-> fault, orders |-> nOrders]
    ELSE [order |-> OrderPtr(nOrders + 1), err |-> "nil", orders |-> nOrders + 1]

\* what GetOrder(id) returns
GetOrderOf(nOrders, id, fault) ==
    IF id \notin 1..nOrders THEN "no rows"
    ELSE IF fault = "fails" THEN "query"
    ELSE "nil"

\* main has created the schema and tried to create its products
MnInit ==
    /\ mnProducts \in SUBSET MnProductIDs
    /\ mnOrders \in 0..MaxPriorOrders
    /\ mnPc = "process"
    /\ mnOrder = NilOrder
    /\ mnErr = "nil"
    /\ mnLog = <<>>
    /\ mnPanic = FALSE
    /\ mnClosed = FALSE

\* order, err := dm.ProcessOrder(1, orderItems)
MnProcessOrder(fault) ==
    /\ mnPc = "process"
    /\ LET r == ProcessOrderOf(mnProducts, mnOrders, MnOrderItems, fault)
       IN  /\ mnOrder' = r.order
           /\ mnErr' = r.err
           /\ mnOrders' = r.orders
    /\ mnPc' = "report"
    /\ UNCHANGED <<mnProducts, mnLog, mnPanic, mnClosed>>
    /\ UNCHANGED notMn

\* if err != nil { log.Printf(...) } else { fmt.Printf(..., order.ID, ...) }
MnReport ==
    /\ mnPc = "report"
    /\ mnLog' = Append(mnLog, IF mnErr # "nil" THEN "order failed" ELSE "order created")
    /\ mnPc' = "lookup"
    /\ UNCHANGED <<mnProducts, mnOrders, mnOrder, mnErr, mnPanic, mnClosed>>
    /\ UNCHANGED notMn

\* if order, err := dm.GetOrder(order.ID); ...: order.ID is evaluated first,
\* on the order ProcessOrder returned; on a nil pointer the runtime panics,
\* the deferred dm.Close() runs and the program ends
MnLookup(fault) ==
    /\ mnPc = "lookup"
    /\ IF mnOrder.isNil
       THEN /\ mnPanic' = TRUE
            /\ mnClosed' = TRUE
            /\ mnPc' = "panicked"
            /\ UNCHANGED mnLog
       ELSE /\ mnLog' = Append(mnLog,
                          IF GetOrderOf(mnOrders, mnOrder.ID, fault) # "nil"
                          THEN "lookup failed" ELSE "order details")
            /\ mnPc' = "stats"
            /\ UNCHANGED <<mnPanic, mnClosed>>
    /\ UNCHANGED <<mnProducts, mnOrders, mnOrder, mnErr>>
    /\ UNCHANGED notMn

\* if stats, err := dm.GetProductStats(); ...
MnStats(fault) ==
    /\ mnPc = "stats"
    /\ mnLog' = Append(mnLog, IF fault = "fails" THEN "stats failed" ELSE "stats")
    /\ mnPc' = "final"
    /\ UNCHANGED <<mnProducts, mnOrders, mnOrder, mnErr, mnPanic, mnClosed>>
    /\ UNCHANGED notMn

\* the final messages; main returns and the deferred dm.Close() runs
MnFinish ==
    /\ mnPc = "final"
    /\ mnLog' = Append(mnLog, "finished")
    /\ mnClosed' = TRUE
    /\ mnPc' = "done"
    /\ UNCHANGED <<mnProducts, mnOrders, mnOrder, mnErr, mnPanic>>
    /\ UNCHANGED notMn

MnNext ==
    \/ \E fault \in PoFaults : MnProcessOrder(fault)
    \/ MnReport
    \/ \E fault \in DbFaults : MnLookup(fault)
    \/ \E fault \in DbFaults : MnStats(fault)
    \/ MnFinish

\* ProcessOrder returns a nil order exactly with an error, and after a
\* successful ProcessOrder main does not panic
MnPanicsOnlyAfterFailure ==
    /\ mnPc # "process" => (mnOrder.isNil <=> mnErr # "nil")
    /\ mnPanic => mnErr # "nil"

\* C21: when ProcessOrder returned (nil, error), main logs the failure and
\* goes on to the end (lookup, statistics, final messages) without
\* dereferencing the nil order: it never panics.
C21_MainSurvivesFailure ==
    (mnPc # "process" /\ mnOrder.isNil /\ mnErr # "nil") => ~mnPanic

----------------------------------------------------------------------------
(* Each program runs on its own: in the specification of one program the   *)
(* others stay in their constructed state.                                 *)

RegIdle == RegInit /\ strategy = "round-robin"
RlIdle == RlInit /\ limit = 1 /\ window = 1

SqIdle == SqInit /\ numbers = <<>>
QIdle == QInit /\ qtPc = "ops"
RtIdle == RtInit /\ rtMax = 0
EdIdle == EdInit /\ eMethod = [e \in Edits |-> "DELETE"] /\ ePath = [e \in Edits |-> <<>>]
LkIdle == LkInit /\ lkExpiration = 0
GobIdle == GobInit /\ gobOrders = <<>> /\ gobUser = 1
CacheIdle == CacheInit
RvIdle == RvInit /\ rvS = <<>>
RcIdle == RcInit
FiIdle == FiInit
MnIdle == MnInit /\ mnProducts = {} /\ mnOrders = 0

Group1Idle == RegIdle /\ RlIdle /\ CtInit /\ WebInit /\ DbInit /\ SqIdle /\ WpInit
Group2Idle == QIdle /\ RtIdle /\ EdIdle /\ LkIdle /\ GobIdle /\ CacheIdle /\ RvIdle /\ RcIdle /\ FiIdle /\ MnIdle

InitRegistry == RegInit /\ RlIdle /\ CtInit /\ WebInit /\ DbInit /\ SqIdle /\ WpInit /\ Group2Idle

SpecRegistry == InitRegistry /\ [][RegNext]_vars

InitRateLimiter == RlInit /\ RegIdle /\ CtInit /\ WebInit /\ DbInit /\ SqIdle /\ WpInit /\ Group2Idle

SpecRateLimiter == InitRateLimiter /\ [][RlNext]_vars

InitCounter == CtInit /\ RegIdle /\ RlIdle /\ WebInit /\ DbInit /\ SqIdle /\ WpInit /\ Group2Idle

SpecCounter == InitCounter /\ [][CtNext]_vars

InitWeb == WebInit /\ RegIdle /\ RlIdle /\ CtInit /\ DbInit /\ SqIdle /\ WpInit /\ Group2Idle

SpecWeb == InitWeb /\ [][WebNext]_vars

InitCreateOrder == DbInit /\ RegIdle /\ RlIdle /\ CtInit /\ WebInit /\ SqIdle /\ WpInit /\ Group2Idle

SpecCreateOrder == InitCreateOrder /\ [][CoNext]_vars

InitProcessOrder == DbInit /\ RegIdle /\ RlIdle /\ CtInit /\ WebInit /\ SqIdle /\ WpInit /\ Group2Idle

SpecProcessOrder == InitProcessOrder /\ [][PoNext]_vars

InitSquareSum == SqInit /\ RegIdle /\ RlIdle /\ CtInit /\ WebInit /\ DbInit /\ WpInit /\ Group2Idle

SpecSquareSum == InitSquareSum /\ [][SqNext]_vars

SpecSquareSumFair == SpecSquareSum /\ SqFairness

InitWorkerPool == WpInit /\ RegIdle /\ RlIdle /\ CtInit /\ WebInit /\ DbInit /\ SqIdle /\ Group2Idle

SpecWorkerPool == InitWorkerPool /\ [][WpNext]_vars

SpecWorkerPoolFair == SpecWorkerPool /\ WpFairness

InitQueue == QInit /\ Group1Idle /\ RtIdle /\ EdIdle /\ LkIdle /\ GobIdle /\ CacheIdle /\ RvIdle /\ RcIdle /\ FiIdle /\ MnIdle

SpecQueue == InitQueue /\ [][QNext]_vars

InitRetry == RtInit /\ Group1Idle /\ QIdle /\ EdIdle /\ LkIdle /\ GobIdle /\ CacheIdle /\ RvIdle /\ RcIdle /\ FiIdle /\ MnIdle

SpecRetry == InitRetry /\ [][RtNext]_vars

InitWebEdit == EdInit /\ Group1Idle /\ QIdle /\ RtIdle /\ LkIdle /\ GobIdle /\ CacheIdle /\ RvIdle /\ RcIdle /\ FiIdle /\ MnIdle

SpecWebEdit == InitWebEdit /\ [][EdNext]_vars

InitLock == LkInit /\ Group1Idle /\ QIdle /\ RtIdle /\ EdIdle /\ GobIdle /\ CacheIdle /\ RvIdle /\ RcIdle /\ FiIdle /\ MnIdle

SpecLock == InitLock /\ [][LkNext]_vars

InitOrdersByUser == GobInit /\ Group1Idle /\ QIdle /\ RtIdle /\ EdIdle /\ LkIdle /\ CacheIdle /\ RvIdle /\ RcIdle /\ FiIdle /\ MnIdle

SpecOrdersByUser == InitOrdersByUser /\ [][GobNext]_vars

InitCache == CacheInit /\ Group1Idle /\ QIdle /\ RtIdle /\ EdIdle /\ LkIdle /\ GobIdle /\ RvIdle /\ RcIdle /\ FiIdle /\ MnIdle

SpecCache == InitCache /\ [][CacheNext]_vars

InitReverse == RvInit /\ Group1Idle /\ QIdle /\ RtIdle /\ EdIdle /\ LkIdle /\ GobIdle /\ CacheIdle /\ RcIdle /\ FiIdle /\ MnIdle

SpecReverse == InitReverse /\ [][RvNext]_vars

InitRegistryConc == RcInit /\ Group1Idle /\ QIdle /\ RtIdle /\ EdIdle /\ LkIdle /\ GobIdle /\ CacheIdle /\ RvIdle /\ FiIdle /\ MnIdle

SpecRegistryConc == InitRegistryConc /\ [][RcNext]_vars

InitFanIn == FiInit /\ Group1Idle /\ QIdle /\ RtIdle /\ EdIdle /\ LkIdle /\ GobIdle /\ CacheIdle /\ RvIdle /\ RcIdle /\ MnIdle

SpecFanIn == InitFanIn /\ [][FiNext]_vars

SpecFanInFair == SpecFanIn /\ FiFairness

InitDbMain == MnInit /\ Group1Idle /\ QIdle /\ RtIdle /\ EdIdle /\ LkIdle /\ GobIdle /\ CacheIdle /\ RvIdle /\ RcIdle /\ FiIdle

SpecDbMain == InitDbMain /\ [][MnNext]_vars

====
